---------------------------- MODULE Spec2Model ----------------------------
(***************************************************************************)
(* Model of the graph construction of the Grafana Istio datasource         *)
(* (pkg/plugin/queryhandlers.go): the parallel fetch of handleGraph,        *)
(* deduplicateMetrics, metricsToEdges, edgesToNodes, getEdgeField and       *)
(* getNodeField, the value lists of handleFilters and handelLabelValues,    *)
(* and the health check of the datasource (pkg/prometheus/types.go).        *)
(*                                                                          *)
(* Sample values and counters are modelled by naturals.  The float64        *)
(* quotients and percentages getEdgeField and getNodeField compute are      *)
(* modelled with their rounding: formatting and comparisons follow the      *)
(* float64 result, not the exact quotient.  Strings are TLA+ strings and    *)
(* fmt.Sprintf is modelled by concatenation.                                *)
(***************************************************************************)
EXTENDS Integers, Sequences, FiniteSets, TLC

VARIABLES
    pc,                   \* position of the operation under check
    metrics,              \* []prometheus.Metric given to deduplicateMetrics / metricsToEdges
    sourceFilters,        \* sourceFilters of metricsToEdges
    destinationFilters,   \* destinationFilters of metricsToEdges
    idx,                  \* index of the next sample of the range loop
    result,               \* result of deduplicateMetrics
    again,                \* result of deduplicateMetrics applied to its own result
    edges,                \* map[string]models.Edge built by metricsToEdges
    heap,                 \* contents of the Go maps (histograms) that edges and nodes refer to
    visited,              \* IDs of the edges the loop of edgesToNodes has visited
    nodes,                \* map[string]models.Node built by edgesToNodes
    istioWarningThreshold, \* Datasource.istioWarningThreshold
    istioErrorThreshold,  \* Datasource.istioErrorThreshold
    subject,              \* the edge or node given to getEdgeField / getNodeField
    interval,             \* the length of the time range in seconds
    field,                \* the models.Field returned
    requested,            \* the metrics parameter of handleGraph
    failing,              \* the <<metric, direction>> queries for which GetMetrics returns an error
    tasks,                \* per goroutine of handleGraph: position and local variables
    errors,               \* handleGraph's errors slice
    errorsMutex,          \* holder of errorsMutex, 0 when unlocked
    prometheusMetrics,    \* handleGraph's prometheusMetrics slice
    prometheusMetricsMutex, \* holder of prometheusMetricsMutex, 0 when unlocked
    metricsWG,            \* counter of the WaitGroup metricsWG
    response,             \* the backend.DataResponse returned by handleGraph
    queries,              \* the <<metric, direction>> queries the Prometheus client has received
    healthChecks,         \* number of health checks handled so far
    buildinfo,            \* error of the Prometheus build-info call of the current health check, "" for nil
    health,               \* what Datasource.CheckHealth returned
    handler,              \* "handleFilters" or "handelLabelValues"
    served,               \* per query: what the Prometheus client returns for it
    values,               \* the values slice of handleFilters / handelLabelValues
    valuesMutex,          \* holder of valuesMutex, 0 when unlocked
    queriesWG             \* counter of the WaitGroup queriesWG

vars == <<pc, metrics, sourceFilters, destinationFilters, idx, result, again, edges,
          heap, visited, nodes,
          istioWarningThreshold, istioErrorThreshold, subject, interval, field,
          requested, failing, tasks, errors, errorsMutex, prometheusMetrics,
          prometheusMetricsMutex, metricsWG, response, queries,
          healthChecks, buildinfo, health,
          handler, served, values, valuesMutex, queriesWG>>

healthVars == <<healthChecks, buildinfo, health>>

valuesVars == <<handler, served, values, valuesMutex, queriesWG>>

projectionVars == <<istioWarningThreshold, istioErrorThreshold, subject, interval, field>>

graphVars == <<requested, failing, tasks, errors, errorsMutex, prometheusMetrics,
               prometheusMetricsMutex, metricsWG, response, queries>>

(***************************************************************************)
(* Bounds of the model.                                                     *)
(***************************************************************************)
MaxSamples == 2        \* longest sample list given to metricsToEdges
MaxDedup == 3          \* longest sample list given to deduplicateMetrics
MaxNodeSamples == 2    \* longest sample list behind an edge map given to edgesToNodes

(***************************************************************************)
(* Generic helpers.                                                         *)
(***************************************************************************)
EmptyMap == [k \in {} |-> 0]

Range(s) == {s[i] : i \in 1..Len(s)}

SeqsUpTo(S, n) == UNION {[1..k -> S] : k \in 0..n}

(***************************************************************************)
(* Metric kinds (models constants) and samples (prometheus.Metric).         *)
(***************************************************************************)
MetricGRPCRequests == "grpcRequests"
MetricGRPCRequestDuration == "grpcRequestDuration"
MetricGRPCSentMessages == "grpcSentMessages"
MetricGRPCReceivedMessages == "grpcReceivedMessages"
MetricHTTPRequests == "httpRequests"
MetricHTTPRequestDuration == "httpRequestDuration"
MetricTCPSentBytes == "tcpSentBytes"
MetricTCPReceivedBytes == "tcpReceivedBytes"

SupportedMetrics ==
    {MetricGRPCRequests, MetricGRPCRequestDuration, MetricGRPCSentMessages,
     MetricGRPCReceivedMessages, MetricHTTPRequests, MetricHTTPRequestDuration,
     MetricTCPSentBytes, MetricTCPReceivedBytes}

\* m.Labels[k] of a Go map: the zero value "" when the key is absent.
Label(m, k) == IF k \in DOMAIN m.Labels THEN m.Labels[k] ELSE ""

\* The mesh labels of one series, as Prometheus returns them.
Route(sw, sns, svc, svcns, dw, dns) ==
    [source_workload |-> sw,
     source_workload_namespace |-> sns,
     destination_service_name |-> svc,
     destination_service_namespace |-> svcns,
     destination_service |-> svc \o "." \o svcns \o ".svc.cluster.local",
     destination_workload |-> dw,
     destination_workload_namespace |-> dns]

\* GetMetrics: labels["metric"] = metric, then every label of the series.
Metric(metric, series, value) ==
    [Value |-> value, Labels |-> series @@ ("metric" :> metric)]

WithLabel(series, k, v) == series @@ (k :> v)

RouteWebApi1 == Route("web", "ns1", "api", "ns1", "api1", "ns1")
RouteWebApi2 == Route("web", "ns1", "api", "ns1", "api2", "ns1")
RouteApi1Db == Route("api1", "ns1", "db", "ns2", "db", "ns2")
RouteWebWaypoint == Route("web", "ns1", "api", "ns1", "waypoint", "ns1")
RouteWebWaypointDb == Route("web", "ns1", "db", "ns2", "waypoint", "ns1")
RouteWaypointApi1 == Route("waypoint", "ns1", "api", "ns1", "api1", "ns1")
RouteWaypointApi2 == Route("waypoint", "ns1", "api", "ns1", "api2", "ns1")
RouteWaypointSelf == Route("waypoint", "ns1", "db", "ns2", "waypoint", "ns1")

TwoLegRoutes == {RouteWebApi1, RouteWebApi2, RouteApi1Db}
WaypointRoutes ==
    {RouteWebWaypoint, RouteWebWaypointDb, RouteWaypointApi1, RouteWaypointApi2,
     RouteWaypointSelf}

\* The samples the bounded lists are drawn from: every route carries HTTP
\* traffic, and every metric kind, an unsupported kind, absent status labels
\* and non-positive durations occur.
HTTPSamples ==
    {Metric(MetricHTTPRequests, WithLabel(r, "response_code", "200"), 2) : r \in TwoLegRoutes}
    \cup {Metric(MetricHTTPRequests, WithLabel(r, "response_code", "200"), 1) : r \in WaypointRoutes}
    \cup {Metric(MetricHTTPRequests, WithLabel(RouteWebApi1, "response_code", "200"), 10),
          Metric(MetricHTTPRequests, WithLabel(RouteWebApi1, "response_code", "503"), 2),
          Metric(MetricHTTPRequests, RouteWebApi1, 1)}

GRPCSamples ==
    {Metric(MetricGRPCRequests, WithLabel(RouteApi1Db, "grpc_response_status", "0"), 2),
     Metric(MetricGRPCRequests, WithLabel(RouteApi1Db, "grpc_response_status", "13"), 1),
     Metric(MetricGRPCRequests, RouteApi1Db, 1),
     Metric(MetricGRPCRequests, WithLabel(RouteWaypointApi1, "grpc_response_status", "0"), 1)}
    \cup {Metric(MetricGRPCRequests, WithLabel(RouteApi1Db, "grpc_response_status", c), 1) :
             c \in {"1", "2", "4", "12", "14", "15"}}

DurationSamples ==
    {Metric(MetricHTTPRequestDuration, RouteWebApi1, v) : v \in {0, 3, 7}}
    \cup {Metric(MetricHTTPRequestDuration, RouteWebWaypoint, 3),
          Metric(MetricGRPCRequestDuration, RouteApi1Db, 4),
          Metric(MetricGRPCRequestDuration, RouteWaypointApi2, 4)}

MessageSamples ==
    {Metric(MetricGRPCSentMessages, RouteApi1Db, 1),
     Metric(MetricGRPCReceivedMessages, RouteApi1Db, 2)}

TCPSamples ==
    {Metric(MetricTCPSentBytes, RouteWebApi2, 3),
     Metric(MetricTCPSentBytes, RouteWaypointSelf, 3),
     Metric(MetricTCPReceivedBytes, RouteWebApi2, 1)}

UnsupportedSamples == {Metric("tcpConnections", RouteWebApi1, 1)}

SampleUniverse ==
    HTTPSamples \cup GRPCSamples \cup DurationSamples \cup MessageSamples
    \cup TCPSamples \cup UnsupportedSamples

\* The filter lists of a query, as sets of "<namespace>/<workload>".
FilterConfigs ==
    {[source |-> {}, destination |-> {}],
     [source |-> {"ns1/api1"}, destination |-> {}],
     [source |-> {"ns2/db"}, destination |-> {"ns1/api1", "ns1/waypoint"}]}

(***************************************************************************)
(* deduplicateMetrics                                                       *)
(***************************************************************************)
\* Mutation: duplicates are recognised by labels and value.
IsDuplicateComparingValues(m, res) == \E i \in 1..Len(res) : m = res[i]

\* The inner loop: some sample already in result has the same labels
\* (reflect.DeepEqual of two non-nil maps).
IsDuplicate(m, res) == \E i \in 1..Len(res) : m.Labels = res[i].Labels

RECURSIVE DedupLoop(_, _, _)
DedupLoop(ms, i, res) ==
    IF i > Len(ms) THEN res
    ELSE DedupLoop(ms, i + 1,
                   IF IsDuplicate(ms[i], res) THEN res ELSE Append(res, ms[i]))

deduplicateMetrics(ms) == DedupLoop(ms, 1, <<>>)

\* Label sets with and without a status label, each with two values.
DedupUniverse ==
    {Metric(MetricHTTPRequests, WithLabel(RouteWebApi1, "response_code", "200"), v) : v \in {2, 10}}
    \cup {Metric(MetricHTTPRequests, RouteWebApi1, v) : v \in {1, 2}}
    \cup {Metric(MetricTCPSentBytes, RouteWebApi1, v) : v \in {1, 2}}

(***************************************************************************)
(* metricsToEdges                                                           *)
(***************************************************************************)
\* fmt.Sprintf("%s/%s", namespace, workload)
FilterKey(namespace, workload) == namespace \o "/" \o workload

\* The guard of the first statement of the loop body: the sample is skipped.
IsFiltered(m, sf, df) ==
    \/ FilterKey(Label(m, "source_workload_namespace"), Label(m, "source_workload")) \in sf
    \/ FilterKey(Label(m, "destination_workload_namespace"), Label(m, "destination_workload")) \in df

IsWaypoint(m) ==
    Label(m, "source_workload") = "waypoint" \/ Label(m, "destination_workload") = "waypoint"

\* fmt.Sprintf("workload-%s-%s-service-%s-%s", ...) and its two siblings.
EdgeID(sourceKind, sourceName, sourceNamespace, destinationKind, name, namespace) ==
    sourceKind \o "-" \o sourceName \o "-" \o sourceNamespace \o "-"
    \o destinationKind \o "-" \o name \o "-" \o namespace

\* fmt.Sprintf("Workload: %s (%s)", name, namespace)
EntityID(type, name, namespace) == type \o ": " \o name \o " (" \o namespace \o ")"

\* A models.Edge literal of metricsToEdges: empty histograms, zero counters.
NewEdge(id, sourceType, sourceName, sourceNamespace, destinationType, destinationName, destinationNamespace, service) ==
    [ID |-> id,
     Source |-> EntityID(sourceType, sourceName, sourceNamespace),
     SourceType |-> sourceType,
     SourceName |-> sourceName,
     SourceNamespace |-> sourceNamespace,
     Destination |-> EntityID(destinationType, destinationName, destinationNamespace),
     DestinationType |-> destinationType,
     DestinationName |-> destinationName,
     DestinationNamespace |-> destinationNamespace,
     DestinationService |-> service,
     GRPCResponseCodes |-> EmptyMap,
     GRPCRequestsSuccess |-> 0,
     GRPCRequestsError |-> 0,
     GRPCRequestDuration |-> 0,
     GRPCSentMessages |-> 0,
     GRPCReceivedMessages |-> 0,
     HTTPResponseCodes |-> EmptyMap,
     HTTPRequestsSuccess |-> 0,
     HTTPRequestsError |-> 0,
     HTTPRequestDuration |-> 0,
     TCPSentBytes |-> 0,
     TCPReceivedBytes |-> 0]

\* The single workload->workload edge of a waypoint sample.  Its ID is built
\* from the destination service, its Destination from the destination workload.
WaypointEdge(m) ==
    NewEdge(EdgeID("workload", Label(m, "source_workload"), Label(m, "source_workload_namespace"),
                   "workload", Label(m, "destination_service_name"),
                   Label(m, "destination_service_namespace")),
            "Workload", Label(m, "source_workload"), Label(m, "source_workload_namespace"),
            "Workload", Label(m, "destination_workload"), Label(m, "destination_workload_namespace"),
            Label(m, "destination_service"))

WorkloadToServiceEdge(m) ==
    NewEdge(EdgeID("workload", Label(m, "source_workload"), Label(m, "source_workload_namespace"),
                   "service", Label(m, "destination_service_name"),
                   Label(m, "destination_service_namespace")),
            "Workload", Label(m, "source_workload"), Label(m, "source_workload_namespace"),
            "Service", Label(m, "destination_service_name"),
            Label(m, "destination_service_namespace"),
            Label(m, "destination_service"))

ServiceToWorkloadEdge(m) ==
    NewEdge(EdgeID("service", Label(m, "destination_service_name"),
                   Label(m, "destination_service_namespace"),
                   "workload", Label(m, "destination_workload"),
                   Label(m, "destination_workload_namespace")),
            "Service", Label(m, "destination_service_name"),
            Label(m, "destination_service_namespace"),
            "Workload", Label(m, "destination_workload"), Label(m, "destination_workload_namespace"),
            Label(m, "destination_service"))

\* Mutation: the service->workload leg is not built.
TmpEdgesWithoutSecondLeg(m) ==
    IF IsWaypoint(m) THEN <<WaypointEdge(m)>> ELSE <<WorkloadToServiceEdge(m)>>

\* Mutation: a waypoint sample is given the two legs of an ordinary sample.
TmpEdgesIgnoringWaypoint(m) == <<WorkloadToServiceEdge(m), ServiceToWorkloadEdge(m)>>

\* tmpEdges of the loop body.
TmpEdges(m) ==
    IF IsWaypoint(m) THEN <<WaypointEdge(m)>>
    ELSE <<WorkloadToServiceEdge(m), ServiceToWorkloadEdge(m)>>

\* Mutation: the bucket takes the value of the sample.
AddToCodeOverwriting(codes, code, value) ==
    [c \in DOMAIN codes \cup {code} |-> IF c = code THEN value ELSE codes[c]]

\* codes[code] of a Go map: 0 when the key is absent.
CodeCountOf(codes, code) == IF code \in DOMAIN codes THEN codes[code] ELSE 0

\* codes[code] += value on a Go map.
AddToCode(codes, code, value) ==
    IF code \in DOMAIN codes THEN [codes EXCEPT ![code] = @ + value]
    ELSE codes @@ (code :> value)

\* Mutation: the codes as the comment at the head of the loop lists them
\* ("2, 4, 12, 14, 14 or 15").
IsGRPCErrorAsCommented(code) == code \in {"2", "4", "12", "14", "15"}

IsGRPCError(code) == code \in {"2", "4", "12", "13", "14", "15"}

\* Only the code 500 counted as an error.
IsHTTPErrorOnly500(code) == code = "500"

\* code[0] == '5'; the code indexes an empty string when the label is absent.
IsHTTPError(code) == SubSeq(code, 1, 1) = "5"

\* The sample makes the switch panic (index out of range on code[0]).
Panics(m) == Label(m, "metric") = MetricHTTPRequests /\ Len(Label(m, "response_code")) = 0

\* Mutation: a duration already stored is kept.
SetsDurationKeepingFirst(edge, m) ==
    /\ edge.DestinationType = "Service" /\ m.Value > 0
    /\ IF Label(m, "metric") = MetricGRPCRequestDuration
       THEN edge.GRPCRequestDuration = 0
       ELSE edge.HTTPRequestDuration = 0

\* Mutation: durations are stored on every edge.
SetsDurationAlways(edge, m) == m.Value > 0

\* The guard of the two duration cases.
SetsDuration(edge, m) == edge.DestinationType = "Service" /\ m.Value > 0

\* The switch on m.Labels["metric"], applied to existingEdge.
UpdateEdge(existingEdge, m) ==
    LET kind == Label(m, "metric")
        value == m.Value
    IN  CASE kind = MetricGRPCRequests ->
               LET code == Label(m, "grpc_response_status")
                   counted == [existingEdge EXCEPT
                                  !.GRPCResponseCodes = AddToCode(@, code, value)]
               IN  IF IsGRPCError(code)
                   THEN [counted EXCEPT !.GRPCRequestsError = @ + value]
                   ELSE [counted EXCEPT !.GRPCRequestsSuccess = @ + value]
          [] kind = MetricGRPCRequestDuration ->
               IF SetsDuration(existingEdge, m)
               THEN [existingEdge EXCEPT !.GRPCRequestDuration = value]
               ELSE existingEdge
          [] kind = MetricGRPCSentMessages ->
               [existingEdge EXCEPT !.GRPCSentMessages = @ + value]
          [] kind = MetricGRPCReceivedMessages ->
               [existingEdge EXCEPT !.GRPCReceivedMessages = @ + value]
          [] kind = MetricHTTPRequests ->
               LET code == Label(m, "response_code")
                   counted == [existingEdge EXCEPT
                                  !.HTTPResponseCodes = AddToCode(@, code, value)]
               IN  IF Len(code) = 0 THEN counted    \* the panic leaves the bucket updated
                   ELSE IF IsHTTPError(code)
                   THEN [counted EXCEPT !.HTTPRequestsError = @ + value]
                   ELSE [counted EXCEPT !.HTTPRequestsSuccess = @ + value]
          [] kind = MetricHTTPRequestDuration ->
               IF SetsDuration(existingEdge, m)
               THEN [existingEdge EXCEPT !.HTTPRequestDuration = value]
               ELSE existingEdge
          [] kind = MetricTCPSentBytes ->
               [existingEdge EXCEPT !.TCPSentBytes = @ + value]
          [] kind = MetricTCPReceivedBytes ->
               [existingEdge EXCEPT !.TCPReceivedBytes = @ + value]
          [] OTHER -> existingEdge

\* Mutation: the edge of the sample replaces the record stored under its ID.
AggregateEdgeOverwriting(es, edge, m) ==
    [id \in DOMAIN es \cup {edge.ID} |-> IF id = edge.ID THEN UpdateEdge(edge, m) ELSE es[id]]

\* One pass of the inner loop: insert the edge when its ID is new, then
\* aggregate the sample into the record stored under that ID.
AggregateEdge(es, edge, m) ==
    LET stored == IF edge.ID \in DOMAIN es THEN es ELSE es @@ (edge.ID :> edge)
    IN  [stored EXCEPT ![edge.ID] = UpdateEdge(@, m)]

RECURSIVE AggregateEdges(_, _, _, _)
AggregateEdges(es, tmp, i, m) ==
    IF i > Len(tmp) THEN es
    ELSE AggregateEdges(AggregateEdge(es, tmp[i], m), tmp, i + 1, m)

\* Mutation: the filters are not consulted.
LoopBodyWithoutFilters(es, m, sf, df) ==
    IF Panics(m)
    THEN [edges |-> AggregateEdge(es, TmpEdges(m)[1], m), panic |-> TRUE]
    ELSE [edges |-> AggregateEdges(es, TmpEdges(m), 1, m), panic |-> FALSE]

\* The body of the loop over the samples.  A panic stops the function in
\* the first pass of the inner loop.
LoopBody(es, m, sf, df) ==
    IF IsFiltered(m, sf, df) THEN [edges |-> es, panic |-> FALSE]
    ELSE IF Panics(m)
    THEN [edges |-> AggregateEdge(es, TmpEdges(m)[1], m), panic |-> TRUE]
    ELSE [edges |-> AggregateEdges(es, TmpEdges(m), 1, m), panic |-> FALSE]

RECURSIVE EdgesLoop(_, _, _, _, _)
EdgesLoop(ms, i, es, sf, df) ==
    IF i > Len(ms) THEN [edges |-> es, panic |-> FALSE]
    ELSE LET step == LoopBody(es, ms[i], sf, df)
         IN  IF step.panic THEN step ELSE EdgesLoop(ms, i + 1, step.edges, sf, df)

\* metricsToEdges as a function of its arguments.
metricsToEdges(ms, sf, df) == EdgesLoop(ms, 1, EmptyMap, sf, df)

(***************************************************************************)
(* edgesToNodes.  A Go map is a reference: a node literal built from an     *)
(* edge shares the edge's histograms.  heap maps every reference to the     *)
(* contents of its map; the records of edges keep the histograms the edges  *)
(* had when edgesToNodes was called.                                        *)
(***************************************************************************)
\* The reference of a histogram of an edge.
EdgeMap(edgeID, protocol) == <<edgeID, protocol>>

\* The reference of a map made for a node literal: make(map[string]float64).
FreshMap(edgeID, end, name) == <<edgeID, end, name>>

\* The heap at the call: the histograms of the edges.
EdgeHeap(es) ==
    [ref \in {EdgeMap(id, p) : id \in DOMAIN es, p \in {"GRPC", "HTTP"}} |->
        IF ref[2] = "GRPC" THEN es[ref[1]].GRPCResponseCodes
        ELSE es[ref[1]].HTTPResponseCodes]

Deref(h, ref) == IF ref \in DOMAIN h THEN h[ref] ELSE EmptyMap

\* tmpNodes[0]: the source of the edge, with the edge's counters as client
\* statistics.
SourceNode(edge) ==
    [ID |-> edge.Source,
     Type |-> edge.SourceType,
     Name |-> edge.SourceName,
     Namespace |-> edge.SourceNamespace,
     Service |-> "",
     ClientGRPCResponseCodes |-> EdgeMap(edge.ID, "GRPC"),
     ClientGRPCRequestsSuccess |-> edge.GRPCRequestsSuccess,
     ClientGRPCRequestsError |-> edge.GRPCRequestsError,
     ClientGRPCSentMessages |-> edge.GRPCSentMessages,
     ClientGRPCReceivedMessages |-> edge.GRPCReceivedMessages,
     ClientHTTPResponseCodes |-> EdgeMap(edge.ID, "HTTP"),
     ClientHTTPRequestsSuccess |-> edge.HTTPRequestsSuccess,
     ClientHTTPRequestsError |-> edge.HTTPRequestsError,
     ClientTCPSentBytes |-> edge.TCPSentBytes,
     ClientTCPReceivedBytes |-> edge.TCPReceivedBytes,
     ServerGRPCResponseCodes |-> FreshMap(edge.ID, "source", "ServerGRPC"),
     ServerGRPCRequestsSuccess |-> 0,
     ServerGRPCRequestsError |-> 0,
     ServerGRPCSentMessages |-> 0,
     ServerGRPCReceivedMessages |-> 0,
     ServerHTTPResponseCodes |-> FreshMap(edge.ID, "source", "ServerHTTP"),
     ServerHTTPRequestsSuccess |-> 0,
     ServerHTTPRequestsError |-> 0,
     ServerTCPSentBytes |-> 0,
     ServerTCPReceivedBytes |-> 0]

\* tmpNodes[1]: the destination of the edge, with the edge's counters as
\* server statistics.
DestinationNode(edge) ==
    [ID |-> edge.Destination,
     Type |-> edge.DestinationType,
     Name |-> edge.DestinationName,
     Namespace |-> edge.DestinationNamespace,
     Service |-> edge.DestinationService,
     ClientGRPCResponseCodes |-> FreshMap(edge.ID, "destination", "ClientGRPC"),
     ClientGRPCRequestsSuccess |-> 0,
     ClientGRPCRequestsError |-> 0,
     ClientGRPCSentMessages |-> 0,
     ClientGRPCReceivedMessages |-> 0,
     ClientHTTPResponseCodes |-> FreshMap(edge.ID, "destination", "ClientHTTP"),
     ClientHTTPRequestsSuccess |-> 0,
     ClientHTTPRequestsError |-> 0,
     ClientTCPSentBytes |-> 0,
     ClientTCPReceivedBytes |-> 0,
     ServerGRPCResponseCodes |-> EdgeMap(edge.ID, "GRPC"),
     ServerGRPCRequestsSuccess |-> edge.GRPCRequestsSuccess,
     ServerGRPCRequestsError |-> edge.GRPCRequestsError,
     ServerGRPCSentMessages |-> edge.GRPCSentMessages,
     ServerGRPCReceivedMessages |-> edge.GRPCReceivedMessages,
     ServerHTTPResponseCodes |-> EdgeMap(edge.ID, "HTTP"),
     ServerHTTPRequestsSuccess |-> edge.HTTPRequestsSuccess,
     ServerHTTPRequestsError |-> edge.HTTPRequestsError,
     ServerTCPSentBytes |-> edge.TCPSentBytes,
     ServerTCPReceivedBytes |-> edge.TCPReceivedBytes]

MapFields ==
    <<"ClientGRPCResponseCodes", "ClientHTTPResponseCodes",
      "ServerGRPCResponseCodes", "ServerHTTPResponseCodes">>

ScalarFields ==
    {"ClientGRPCRequestsSuccess", "ClientGRPCRequestsError", "ClientGRPCSentMessages",
     "ClientGRPCReceivedMessages", "ClientHTTPRequestsSuccess", "ClientHTTPRequestsError",
     "ClientTCPSentBytes", "ClientTCPReceivedBytes",
     "ServerGRPCRequestsSuccess", "ServerGRPCRequestsError", "ServerGRPCSentMessages",
     "ServerGRPCReceivedMessages", "ServerHTTPRequestsSuccess", "ServerHTTPRequestsError",
     "ServerTCPSentBytes", "ServerTCPReceivedBytes"}

\* Mutation: a merged counter is overwritten with the new contribution.
MergedScalarOverwriting(existing, contribution) == contribution

\* existingNode.X += node.X
MergedScalar(existing, contribution) == existing + contribution

\* The counters of existingNode after the merge of node; the map fields keep
\* the references of existingNode.
MergeScalars(existingNode, node) ==
    [f \in DOMAIN existingNode |->
        IF f \in ScalarFields THEN MergedScalar(existingNode[f], node[f])
        ELSE existingNode[f]]

\* for code, count := range from { to[code] += count }
AddCodes(to, from) ==
    [c \in DOMAIN to \cup DOMAIN from |-> CodeCountOf(to, c) + CodeCountOf(from, c)]

\* The four range loops of the merge, in the order of the code.
RECURSIVE MergeMaps(_, _, _, _)
MergeMaps(h, existingNode, node, i) ==
    IF i > Len(MapFields) THEN h
    ELSE LET f == MapFields[i]
             to == existingNode[f]
             merged == AddCodes(Deref(h, to), Deref(h, node[f]))
         IN  MergeMaps([ref \in DOMAIN h \cup {to} |-> IF ref = to THEN merged ELSE h[ref]],
                       existingNode, node, i + 1)

\* The maps a node literal made come into being with the literal.
WithFreshMaps(h, node) ==
    [ref \in DOMAIN h \cup {node[MapFields[i]] : i \in 1..Len(MapFields)} |-> Deref(h, ref)]

\* One pass of the inner loop over tmpNodes: a new node is stored as it is,
\* an existing one gets the counters and histograms of node added.
AddNode(st, node) ==
    IF node.ID \notin DOMAIN st.nodes
    THEN [nodes |-> st.nodes @@ (node.ID :> node), heap |-> WithFreshMaps(st.heap, node)]
    ELSE [nodes |-> [st.nodes EXCEPT ![node.ID] = MergeScalars(@, node)],
          heap |-> MergeMaps(st.heap, st.nodes[node.ID], node, 1)]

\* Mutation: only the source of an edge becomes a node.
VisitedEdgeSourceOnly(st, edge) == AddNode(st, SourceNode(edge))

\* The body of the loop over the edges.
VisitedEdge(st, edge) == AddNode(AddNode(st, SourceNode(edge)), DestinationNode(edge))

(***************************************************************************)
(* getEdgeField and getNodeField.                                           *)
(***************************************************************************)
ColorCritical == "#f2495c"
ColorWarning == "#fade2a"
ColorHealthy == "#73bf69"
ColorTCP == "#5794f2"
ColorIdle == "#ccccdc"

Pad2(n) == IF n < 10 THEN "0" \o ToString(n) ELSE ToString(n)

(***************************************************************************)
(* float64.  The counters of an edge are sums of sample values, modelled   *)
(* by naturals, and every float64 the projection computes is a quotient of *)
(* two of them, or such a quotient times 100.  A value is kept as the      *)
(* exact quotient num / den together with off, the direction in which the  *)
(* roundings of the float64 operations moved the result away from it       *)
(* (-1 below, 0 exact, 1 above).  The result lies within two units in the  *)
(* last place of num / den, so it compares with every number written with  *)
(* few digits as num / den does, except with num / den itself, where off   *)
(* decides.  off is computed from remainders modulo the divisor, for       *)
(* operands up to 10^6.  den = 0 is the division by the zero interval:     *)
(* +Inf for a positive dividend, NaN for 0 / 0.                            *)
(***************************************************************************)
Float(num, den, off) == [num |-> num, den |-> den, off |-> off]

Sign(x) == IF x > 0 THEN 1 ELSE IF x < 0 THEN -1 ELSE 0

\* The binary exponent of n / d: 2^e <= n / d < 2^(e + 1), for n, d > 0.
RECURSIVE Exponent(_, _)
Exponent(n, d) ==
    IF n >= 2 * d THEN Exponent(n, 2 * d) + 1
    ELSE IF n < d THEN Exponent(2 * n, d) - 1
    ELSE 0

\* (a * 2^s) % m, five bits at a time, without a product above 2^31.
RECURSIVE ShiftMod(_, _, _)
ShiftMod(a, s, m) ==
    IF s >= 5 THEN ShiftMod((32 * (a % m)) % m, s - 5, m)
    ELSE (2^s * (a % m)) % m

\* The significand M is n * 2^s / d rounded to the nearest integer, ties to
\* even, with s = 52 - exp and shifted = (n * 2^s) % (64 * d): rho is the
\* remainder n * 2^s - M * d and low the six low bits of M.
Rounded(exp, shifted, d) ==
    LET rem == shifted % d
        floorLow == shifted \div d
        up == 2 * rem > d \/ (2 * rem = d /\ floorLow % 2 = 1)
    IN  [exp |-> exp,
         rho |-> IF up THEN rem - d ELSE rem,
         low |-> IF up THEN (floorLow + 1) % 64 ELSE floorLow]

DivisionAt(n, d, exp) == Rounded(exp, ShiftMod(n, 52 - exp, 64 * d), d)

\* The float64 division n / d for n, d > 0.
Division(n, d) == DivisionAt(n, d, Exponent(n, d))

\* n / interval as the code divides two float64 values.
Quotient(n, d) ==
    IF n = 0 \/ d = 0 THEN Float(n, d, 0)
    ELSE Float(n, d, - Sign(Division(n, d).rho))

\* The rounding direction of q * 100 for the rounded quotient q of error and
\* total, ex being the exponent of 100 * error / total: the product 100 * M is
\* rounded again to 53 bits, which drops its k low bits.
TimesHundred(error, total, q, ex) ==
    LET powerOfTwo == IF ex >= 0 THEN 100 * error = total * 2^ex
                      ELSE 100 * error * 2^(0 - ex) = total
        k == (IF powerOfTwo /\ q.rho > 0 THEN ex - 1 ELSE ex) - q.exp - 2
        dropped == (25 * q.low) % 2^k
        odd == (25 * q.low) % 2^(k + 1) >= 2^k
        up == 2 * dropped > 2^k \/ (2 * dropped = 2^k /\ odd)
        adjust == IF up THEN 2^k - dropped ELSE 0 - dropped
    IN  Sign(total * adjust - 25 * q.rho)

\* The rounding direction of (error / total) * 100.
PercentOff(error, total) ==
    TimesHundred(error, total, Division(error, total), Exponent(100 * error, total))

\* -1, 0 or 1 as the float64 value is below, equal to or above the threshold.
Compare(value, threshold) ==
    IF value.num # threshold * value.den THEN Sign(value.num - threshold * value.den)
    ELSE value.off

\* fmt.Sprintf("%.2f", value): the decimal expansion of the float64 rounded to
\* two places, a tie of the float64 itself going to the even digit.
Fixed2(value) ==
    IF value.den = 0 THEN (IF value.num > 0 THEN "+Inf" ELSE "NaN")
    ELSE LET down == (100 * value.num) \div value.den
             tie == /\ (200 * value.num) % value.den = 0
                    /\ ((200 * value.num) \div value.den) % 2 = 1
             hundredths ==
                 IF ~tie THEN (200 * value.num + value.den) \div (2 * value.den)
                 ELSE IF value.off > 0 THEN down + 1
                 ELSE IF value.off < 0 THEN down
                 ELSE IF down % 2 = 0 THEN down ELSE down + 1
         IN  ToString(hundredths \div 100) \o "." \o Pad2(hundredths % 100)

Rps(requests, seconds) == Fixed2(Quotient(requests, seconds)) \o "rps"
Mps(messages, seconds) == Fixed2(Quotient(messages, seconds)) \o "mps"
Bps(bytes, seconds) == Fixed2(Quotient(bytes, seconds)) \o "bps"
Ms(duration) == Fixed2(Float(duration, 1, 0)) \o "ms"

\* The error rate in percent: (error / (success + error)) * 100 when
\* error > 0, else 0.
ErrRate(success, error) ==
    IF error > 0
    THEN Float(100 * error, success + error, PercentOff(error, success + error))
    ELSE Float(0, 1, 0)

Percent(rate) == Fixed2(rate) \o "%"

\* Mutation: the error threshold itself is not critical.
ReachesErrorThresholdStrictly(rate, threshold) == Compare(rate, threshold) > 0

\* errRate >= d.istioErrorThreshold
ReachesErrorThreshold(rate, threshold) == Compare(rate, threshold) >= 0

\* errRate > d.istioWarningThreshold
ExceedsWarningThreshold(rate, threshold) == Compare(rate, threshold) > 0

\* The if / else if / else that colours HTTP and gRPC traffic.
ThresholdColor(rate, warning, error) ==
    IF ReachesErrorThreshold(rate, error) THEN ColorCritical
    ELSE IF ExceedsWarningThreshold(rate, warning) THEN ColorWarning
    ELSE ColorHealthy

\* Mutation: equal volumes select HTTP.
HTTPDominatesOnTie(httpRequests, grpcRequests) == httpRequests >= grpcRequests

\* The first condition of the cascade: more HTTP than gRPC requests.
HTTPDominates(httpRequests, grpcRequests) == httpRequests > grpcRequests

\* append(stat, value) when the condition holds.
AppendIf(stat, condition, value) == IF condition THEN Append(stat, value) ELSE stat

getEdgeField(edge, seconds, warning, error) ==
    LET grpcRequests == edge.GRPCRequestsSuccess + edge.GRPCRequestsError
        httpRequests == edge.HTTPRequestsSuccess + edge.HTTPRequestsError
        tcpBytes == edge.TCPSentBytes + edge.TCPReceivedBytes
        grpcErrRate == ErrRate(edge.GRPCRequestsSuccess, edge.GRPCRequestsError)
        httpErrRate == ErrRate(edge.HTTPRequestsSuccess, edge.HTTPRequestsError)
        details ==
            [ID |-> edge.ID,
             Source |-> edge.Source,
             Destination |-> edge.Destination,
             MainStat |-> <<>>,
             SecondaryStat |-> <<>>,
             Color |-> "",
             DetailsGRPCRate |-> <<Rps(grpcRequests, seconds)>>,
             DetailsGRPCErr |-> <<Percent(grpcErrRate)>>,
             DetailsGRPCDuration |->
                 IF edge.GRPCRequestDuration > 0 THEN <<Ms(edge.GRPCRequestDuration)>>
                 ELSE <<"-">>,
             DetailsGRPCSentMessages |-> <<Mps(edge.GRPCSentMessages, seconds)>>,
             DetailsGRPCReceivedMessages |-> <<Mps(edge.GRPCReceivedMessages, seconds)>>,
             DetailsHTTPRate |-> <<Rps(httpRequests, seconds)>>,
             DetailsHTTPErr |-> <<Percent(httpErrRate)>>,
             DetailsHTTPDuration |->
                 IF edge.HTTPRequestDuration > 0 THEN <<Ms(edge.HTTPRequestDuration)>>
                 ELSE <<"-">>,
             DetailsTCPSentBytes |-> <<Bps(edge.TCPSentBytes, seconds)>>,
             DetailsTCPReceivedBytes |-> <<Bps(edge.TCPReceivedBytes, seconds)>>]
    IN  IF HTTPDominates(httpRequests, grpcRequests)
        THEN [details EXCEPT
                 !.MainStat = AppendIf(<<details.DetailsHTTPRate[1]>>, httpErrRate.num > 0,
                                       details.DetailsHTTPErr[1]),
                 !.Color = ThresholdColor(httpErrRate, warning, error),
                 !.SecondaryStat =
                     AppendIf(AppendIf(<<>>, edge.HTTPRequestDuration > 0,
                                       details.DetailsHTTPDuration[1]),
                              tcpBytes > 0, Bps(tcpBytes, seconds))]
        ELSE IF grpcRequests > 0
        THEN [details EXCEPT
                 !.MainStat = AppendIf(<<details.DetailsGRPCRate[1]>>, grpcErrRate.num > 0,
                                       details.DetailsGRPCErr[1]),
                 !.Color = ThresholdColor(grpcErrRate, warning, error),
                 !.SecondaryStat =
                     AppendIf(AppendIf(<<>>, edge.GRPCRequestDuration > 0,
                                       details.DetailsGRPCDuration[1]),
                              tcpBytes > 0, Bps(tcpBytes, seconds))]
        ELSE IF tcpBytes > 0
        THEN [details EXCEPT !.MainStat = <<Bps(tcpBytes, seconds)>>, !.Color = ColorTCP]
        ELSE [details EXCEPT !.Color = ColorIdle]

\* A models.Edge literal that takes the client side of the node instead.
ServiceAsEdgeFromClientSide(node) ==
    [ID |-> node.ID,
     Source |-> node.ID,
     Destination |-> node.ID,
     GRPCRequestsSuccess |-> node.ClientGRPCRequestsSuccess,
     GRPCRequestsError |-> node.ClientGRPCRequestsError,
     GRPCRequestDuration |-> 0,
     GRPCSentMessages |-> node.ClientGRPCSentMessages,
     GRPCReceivedMessages |-> node.ClientGRPCReceivedMessages,
     HTTPRequestsSuccess |-> node.ClientHTTPRequestsSuccess,
     HTTPRequestsError |-> node.ClientHTTPRequestsError,
     HTTPRequestDuration |-> 0,
     TCPSentBytes |-> node.ClientTCPSentBytes,
     TCPReceivedBytes |-> node.ClientTCPReceivedBytes]

\* The models.Edge literal getNodeField builds from the server side of a
\* Service node; the fields it does not set are zero.
ServiceAsEdge(node) ==
    [ID |-> node.ID,
     Source |-> node.ID,
     Destination |-> node.ID,
     GRPCRequestsSuccess |-> node.ServerGRPCRequestsSuccess,
     GRPCRequestsError |-> node.ServerGRPCRequestsError,
     GRPCRequestDuration |-> 0,
     GRPCSentMessages |-> node.ServerGRPCSentMessages,
     GRPCReceivedMessages |-> node.ServerGRPCReceivedMessages,
     HTTPRequestsSuccess |-> node.ServerHTTPRequestsSuccess,
     HTTPRequestsError |-> node.ServerHTTPRequestsError,
     HTTPRequestDuration |-> 0,
     TCPSentBytes |-> node.ServerTCPSentBytes,
     TCPReceivedBytes |-> node.ServerTCPReceivedBytes]

\* The four-way if that sets the server and client error rates of one
\* protocol and their display strings.
NodeErrRates(serverSuccess, serverError, clientSuccess, clientError) ==
    IF serverError > 0 /\ clientError > 0
    THEN [server |-> ErrRate(serverSuccess, serverError),
          client |-> ErrRate(clientSuccess, clientError),
          details |-> <<Percent(ErrRate(serverSuccess, serverError)),
                        Percent(ErrRate(clientSuccess, clientError))>>]
    ELSE IF serverError > 0 /\ clientError = 0
    THEN [server |-> ErrRate(serverSuccess, serverError),
          client |-> ErrRate(0, 0),
          details |-> <<Percent(ErrRate(serverSuccess, serverError)), "0.00%">>]
    ELSE IF serverError = 0 /\ clientError > 0
    THEN [server |-> ErrRate(0, 0),
          client |-> ErrRate(clientSuccess, clientError),
          details |-> <<"0.00%", Percent(ErrRate(clientSuccess, clientError))>>]
    ELSE [server |-> ErrRate(0, 0), client |-> ErrRate(0, 0), details |-> <<"0.00%", "0.00%">>]

\* The cascade of getNodeField for a Workload node: server HTTP, server
\* gRPC, client HTTP, client gRPC, server TCP, client TCP, no traffic.
WorkloadStats(node, details, grpc, http, seconds, warning, error) ==
    LET serverGRPC == node.ServerGRPCRequestsSuccess + node.ServerGRPCRequestsError
        serverHTTP == node.ServerHTTPRequestsSuccess + node.ServerHTTPRequestsError
        clientGRPC == node.ClientGRPCRequestsSuccess + node.ClientGRPCRequestsError
        clientHTTP == node.ClientHTTPRequestsSuccess + node.ClientHTTPRequestsError
        serverTCP == node.ServerTCPSentBytes + node.ServerTCPReceivedBytes
        clientTCP == node.ClientTCPSentBytes + node.ClientTCPReceivedBytes
    IN  IF HTTPDominates(serverHTTP, serverGRPC)
        THEN [details EXCEPT
                 !.MainStat = AppendIf(<<details.DetailsHTTPRate[1]>>, http.server.num > 0,
                                       details.DetailsHTTPErr[1]),
                 !.Color = ThresholdColor(http.server, warning, error),
                 !.SecondaryStat = AppendIf(<<>>, serverTCP > 0, Bps(serverTCP, seconds))]
        ELSE IF serverGRPC > 0
        THEN [details EXCEPT
                 !.MainStat = AppendIf(<<details.DetailsGRPCRate[1]>>, grpc.server.num > 0,
                                       details.DetailsGRPCErr[1]),
                 !.Color = ThresholdColor(grpc.server, warning, error),
                 !.SecondaryStat = AppendIf(<<>>, serverTCP > 0, Bps(serverTCP, seconds))]
        ELSE IF HTTPDominates(clientHTTP, clientGRPC)
        THEN [details EXCEPT
                 !.MainStat = AppendIf(<<details.DetailsHTTPRate[2]>>, http.client.num > 0,
                                       details.DetailsHTTPErr[2]),
                 !.Color = ThresholdColor(http.client, warning, error),
                 !.SecondaryStat = AppendIf(<<>>, clientTCP > 0, Bps(clientTCP, seconds))]
        ELSE IF clientGRPC > 0
        THEN [details EXCEPT
                 !.MainStat = AppendIf(<<details.DetailsGRPCRate[2]>>, grpc.client.num > 0,
                                       details.DetailsGRPCErr[2]),
                 !.Color = ThresholdColor(grpc.client, warning, error),
                 !.SecondaryStat = AppendIf(<<>>, clientTCP > 0, Bps(clientTCP, seconds))]
        ELSE IF serverTCP > 0
        THEN [details EXCEPT !.MainStat = <<Bps(serverTCP, seconds)>>, !.Color = ColorTCP]
        ELSE IF clientTCP > 0
        THEN [details EXCEPT !.MainStat = <<Bps(clientTCP, seconds)>>, !.Color = ColorTCP]
        ELSE [details EXCEPT !.Color = ColorIdle]

getNodeField(node, seconds, warning, error) ==
    IF node.Type = "Service"
    THEN getEdgeField(ServiceAsEdge(node), seconds, warning, error)
    ELSE
    LET grpc == NodeErrRates(node.ServerGRPCRequestsSuccess, node.ServerGRPCRequestsError,
                             node.ClientGRPCRequestsSuccess, node.ClientGRPCRequestsError)
        http == NodeErrRates(node.ServerHTTPRequestsSuccess, node.ServerHTTPRequestsError,
                             node.ClientHTTPRequestsSuccess, node.ClientHTTPRequestsError)
        details ==
            [ID |-> node.ID,
             Source |-> "",
             Destination |-> "",
             MainStat |-> <<>>,
             SecondaryStat |-> <<>>,
             Color |-> "",
             DetailsGRPCRate |->
                 <<Rps(node.ServerGRPCRequestsSuccess + node.ServerGRPCRequestsError, seconds),
                   Rps(node.ClientGRPCRequestsSuccess + node.ClientGRPCRequestsError, seconds)>>,
             DetailsGRPCErr |-> grpc.details,
             DetailsGRPCDuration |-> <<>>,
             DetailsGRPCSentMessages |->
                 <<Mps(node.ServerGRPCSentMessages, seconds),
                   Mps(node.ClientGRPCSentMessages, seconds)>>,
             DetailsGRPCReceivedMessages |->
                 <<Mps(node.ServerGRPCReceivedMessages, seconds),
                   Mps(node.ClientGRPCReceivedMessages, seconds)>>,
             DetailsHTTPRate |->
                 <<Rps(node.ServerHTTPRequestsSuccess + node.ServerHTTPRequestsError, seconds),
                   Rps(node.ClientHTTPRequestsSuccess + node.ClientHTTPRequestsError, seconds)>>,
             DetailsHTTPErr |-> http.details,
             DetailsHTTPDuration |-> <<>>,
             DetailsTCPSentBytes |->
                 <<Bps(node.ServerTCPSentBytes, seconds), Bps(node.ClientTCPSentBytes, seconds)>>,
             DetailsTCPReceivedBytes |->
                 <<Bps(node.ServerTCPReceivedBytes, seconds),
                   Bps(node.ClientTCPReceivedBytes, seconds)>>]
    IN  WorkloadStats(node, details, grpc, http, seconds, warning, error)

\* NewDatasource: a threshold of 0 in the settings is replaced by its default.
DefaultedWarningThreshold(settings) ==
    IF settings.IstioWarningThreshold = 0 THEN 0 ELSE settings.IstioWarningThreshold

DefaultedErrorThreshold(settings) ==
    IF settings.IstioErrorThreshold = 0 THEN 5 ELSE settings.IstioErrorThreshold

(***************************************************************************)
(* Specification of deduplicateMetrics: it is applied to a bounded list,    *)
(* then to its own result.                                                  *)
(***************************************************************************)
IdleEdges ==
    /\ sourceFilters = {} /\ destinationFilters = {} /\ idx = 0 /\ edges = EmptyMap

IdleNodes == heap = EmptyMap /\ visited = {} /\ nodes = EmptyMap

IdleProjection ==
    /\ istioWarningThreshold = 0 /\ istioErrorThreshold = 0
    /\ subject = EmptyMap /\ interval = 0 /\ field = EmptyMap

NoResponse == [Error |-> "", Frames |-> <<>>]

IdleGraph ==
    /\ requested = <<>> /\ failing = {} /\ tasks = <<>>
    /\ errors = <<>> /\ errorsMutex = 0
    /\ prometheusMetrics = <<>> /\ prometheusMetricsMutex = 0
    /\ metricsWG = 0 /\ response = NoResponse /\ queries = {}

NoHealth == [res |-> [Status |-> "", Message |-> ""], err |-> ""]

IdleValues ==
    handler = "" /\ served = <<>> /\ values = <<>> /\ valuesMutex = 0 /\ queriesWG = 0

IdleHealth == healthChecks = 0 /\ buildinfo = "" /\ health = NoHealth

InitDedup ==
    /\ pc = "dedup"
    /\ metrics \in SeqsUpTo(DedupUniverse, MaxDedup)
    /\ result = <<>> /\ again = <<>>
    /\ IdleEdges
    /\ IdleNodes
    /\ IdleProjection
    /\ IdleGraph
    /\ IdleHealth
    /\ IdleValues

Deduplicate ==
    /\ pc = "dedup"
    /\ result' = deduplicateMetrics(metrics)
    /\ pc' = "deduplicated"
    /\ UNCHANGED <<metrics, sourceFilters, destinationFilters, idx, again, edges, heap, visited, nodes, projectionVars, graphVars, healthVars, valuesVars>>

DeduplicateAgain ==
    /\ pc = "deduplicated"
    /\ again' = deduplicateMetrics(result)
    /\ pc' = "deduplicatedTwice"
    /\ UNCHANGED <<metrics, sourceFilters, destinationFilters, idx, result, edges, heap, visited, nodes, projectionVars, graphVars, healthVars, valuesVars>>

NextDedup == Deduplicate \/ DeduplicateAgain

SpecDedup == InitDedup /\ [][NextDedup]_vars

(***************************************************************************)
(* Specification of metricsToEdges: one step per sample of the list.        *)
(***************************************************************************)
InitEdges ==
    /\ pc = "metricsToEdges"
    /\ metrics \in SeqsUpTo(SampleUniverse, MaxSamples)
    /\ \E f \in FilterConfigs : sourceFilters = f.source /\ destinationFilters = f.destination
    /\ idx = 1
    /\ edges = EmptyMap
    /\ result = <<>> /\ again = <<>>
    /\ IdleNodes
    /\ IdleProjection
    /\ IdleGraph
    /\ IdleHealth
    /\ IdleValues

ProcessSample ==
    /\ pc = "metricsToEdges"
    /\ idx <= Len(metrics)
    /\ LET step == LoopBody(edges, metrics[idx], sourceFilters, destinationFilters)
       IN  /\ edges' = step.edges
           /\ pc' = IF step.panic THEN "panic" ELSE pc
    /\ idx' = idx + 1
    /\ UNCHANGED <<metrics, sourceFilters, destinationFilters, result, again, heap, visited, nodes, projectionVars, graphVars, healthVars, valuesVars>>

ReturnEdges ==
    /\ pc = "metricsToEdges"
    /\ idx > Len(metrics)
    /\ pc' = "edges"
    /\ UNCHANGED <<metrics, sourceFilters, destinationFilters, idx, result, again, edges, heap, visited, nodes, projectionVars, graphVars, healthVars, valuesVars>>

NextEdges == ProcessSample \/ ReturnEdges

SpecEdges == InitEdges /\ [][NextEdges]_vars

(***************************************************************************)
(* Properties of deduplicateMetrics.                                        *)
(***************************************************************************)
\* The positions of the samples whose label map no earlier sample has.
FirstOccurrences(ms) ==
    {i \in 1..Len(ms) : \A j \in 1..(i - 1) : ms[j].Labels # ms[i].Labels}

\* The k-th smallest element of a set of positions.
KthOf(S, k) == CHOOSE i \in S : Cardinality({j \in S : j <= i}) = k

NoEqualLabels(ms) ==
    \A i, j \in 1..Len(ms) : i # j => ms[i].Labels # ms[j].Labels

\* C2: deduplicateMetrics returns, in their original order, exactly the
\* samples whose label map no earlier sample has (values are not compared):
\* no two samples of the result have equal label maps, and deduplicating the
\* result returns it unchanged.
Thm_C2 ==
    /\ pc \in {"deduplicated", "deduplicatedTwice"} =>
          /\ Len(result) = Cardinality(FirstOccurrences(metrics))
          /\ \A k \in 1..Len(result) : result[k] = metrics[KthOf(FirstOccurrences(metrics), k)]
          /\ NoEqualLabels(result)
    /\ pc = "deduplicatedTwice" => again = result

\* A sample with the labels of an earlier one and another value was dropped,
\* two samples were kept, and the result was deduplicated again.
Wit_C2 ==
    /\ pc = "deduplicatedTwice"
    /\ Len(result) = 2
    /\ Len(metrics) = 3
    /\ \E i, j \in 1..Len(metrics) :
          i < j /\ metrics[i].Labels = metrics[j].Labels /\ metrics[i].Value # metrics[j].Value

(***************************************************************************)
(* Properties of metricsToEdges.                                            *)
(***************************************************************************)
CodeUniverse == {"", "0", "1", "2", "4", "12", "13", "14", "15", "200", "503"}

CodeCount(codes, code) == IF code \in DOMAIN codes THEN codes[code] ELSE 0

\* The record stored under id, or the counters of a record not yet stored.
StoredOrZero(es, id) ==
    IF id \in DOMAIN es THEN es[id]
    ELSE [GRPCResponseCodes |-> EmptyMap, GRPCRequestsSuccess |-> 0, GRPCRequestsError |-> 0,
          GRPCSentMessages |-> 0, GRPCReceivedMessages |-> 0,
          HTTPResponseCodes |-> EmptyMap, HTTPRequestsSuccess |-> 0, HTTPRequestsError |-> 0,
          TCPSentBytes |-> 0, TCPReceivedBytes |-> 0]

\* What one step added to the histograms and counters stored under id.
CounterUpdate(before, after, id) ==
    LET old == StoredOrZero(before, id)
        new == StoredOrZero(after, id)
    IN  [grpcCodes |-> [c \in CodeUniverse |->
                          CodeCount(new.GRPCResponseCodes, c) - CodeCount(old.GRPCResponseCodes, c)],
         httpCodes |-> [c \in CodeUniverse |->
                          CodeCount(new.HTTPResponseCodes, c) - CodeCount(old.HTTPResponseCodes, c)],
         grpcSuccess |-> new.GRPCRequestsSuccess - old.GRPCRequestsSuccess,
         grpcError |-> new.GRPCRequestsError - old.GRPCRequestsError,
         httpSuccess |-> new.HTTPRequestsSuccess - old.HTTPRequestsSuccess,
         httpError |-> new.HTTPRequestsError - old.HTTPRequestsError,
         sentMessages |-> new.GRPCSentMessages - old.GRPCSentMessages,
         receivedMessages |-> new.GRPCReceivedMessages - old.GRPCReceivedMessages,
         sentBytes |-> new.TCPSentBytes - old.TCPSentBytes,
         receivedBytes |-> new.TCPReceivedBytes - old.TCPReceivedBytes]

\* The IDs whose record a step created or changed.
Touched(before, after) ==
    {id \in DOMAIN after : id \notin DOMAIN before \/ after[id] # before[id]}

ClaimSourceKey(m) == Label(m, "source_workload_namespace") \o "/" \o Label(m, "source_workload")
ClaimDestinationKey(m) ==
    Label(m, "destination_workload_namespace") \o "/" \o Label(m, "destination_workload")

ClaimExcluded(m) ==
    ClaimSourceKey(m) \in sourceFilters \/ ClaimDestinationKey(m) \in destinationFilters

ClaimWaypoint(m) ==
    Label(m, "source_workload") = "waypoint" \/ Label(m, "destination_workload") = "waypoint"

\* The step applied an ordinary sample to its workload->service and its
\* service->workload edge, with the same update of both.
TwoLegsUpdated(m) ==
    LET first == EdgeID("workload", Label(m, "source_workload"),
                        Label(m, "source_workload_namespace"), "service",
                        Label(m, "destination_service_name"),
                        Label(m, "destination_service_namespace"))
        second == EdgeID("service", Label(m, "destination_service_name"),
                         Label(m, "destination_service_namespace"), "workload",
                         Label(m, "destination_workload"),
                         Label(m, "destination_workload_namespace"))
    IN  /\ first # second
        /\ {first, second} \subseteq DOMAIN edges'
        /\ Touched(edges, edges') \subseteq {first, second}
        /\ edges'[first].SourceType = "Workload" /\ edges'[first].DestinationType = "Service"
        /\ edges'[second].SourceType = "Service" /\ edges'[second].DestinationType = "Workload"
        /\ CounterUpdate(edges, edges', first) = CounterUpdate(edges, edges', second)

\* The step applied a waypoint sample to one workload->workload edge.
OneEdgeUpdated(m) ==
    \E id \in DOMAIN edges' :
        /\ Touched(edges, edges') \subseteq {id}
        /\ DOMAIN edges' \subseteq DOMAIN edges \cup {id}
        /\ edges'[id].SourceType = "Workload" /\ edges'[id].DestinationType = "Workload"
        /\ edges'[id].SourceName = Label(m, "source_workload")

\* C3: every sample accepted by the filters is applied to exactly two edges
\* (workload->service and service->workload) that receive the same update of
\* histograms and counters, or, when its source or destination workload is
\* "waypoint", to exactly one workload->workload edge.
Cex_C3 ==
    [][ProcessSample =>
         LET m == metrics[idx]
         IN  ~ClaimExcluded(m) =>
                 IF ClaimWaypoint(m) THEN OneEdgeUpdated(m) ELSE TwoLegsUpdated(m)]_vars

\* The tuple the claims identify an edge by.
EdgeTuple(e) ==
    <<e.SourceType, e.SourceName, e.SourceNamespace,
      e.DestinationType, e.DestinationName, e.DestinationNamespace>>

\* C4: the returned edge map has exactly one record per tuple (source kind,
\* name, namespace, destination kind, name, namespace), and every accepted
\* sample is accumulated into the record of the tuple of the edge it
\* synthesizes, for waypoint edges as for two-leg edges.
Cex_C4 ==
    pc = "edges" =>
        /\ \A a, b \in DOMAIN edges : a # b => EdgeTuple(edges[a]) # EdgeTuple(edges[b])
        /\ \A i \in 1..Len(metrics) :
              ~ClaimExcluded(metrics[i]) =>
                  \A k \in 1..Len(TmpEdges(metrics[i])) :
                      LET tmp == TmpEdges(metrics[i])[k]
                      IN  EdgeTuple(edges[tmp.ID]) = EdgeTuple(tmp)

\* C6: an edge whose destination is not a Service has gRPC duration 0 and
\* HTTP duration 0 after any sequence of samples.
Thm_C6 ==
    \A id \in DOMAIN edges :
        edges[id].DestinationType # "Service" =>
            edges[id].GRPCRequestDuration = 0 /\ edges[id].HTTPRequestDuration = 0

\* A positive duration sample was processed: it set the duration of the
\* workload->service edge, and the service->workload edge exists.
Wit_C6 ==
    /\ pc = "edges"
    /\ \E a, b \in DOMAIN edges :
          /\ edges[a].DestinationType = "Service" /\ edges[a].HTTPRequestDuration > 0
          /\ edges[b].SourceType = "Service" /\ edges[b].Source = edges[a].Destination

RemoveAt(s, i) == SubSeq(s, 1, i - 1) \o SubSeq(s, i + 1, Len(s))

\* C7: a sample whose source identity is in sourceFilters or whose
\* destination identity is in destinationFilters is excluded: the outcome is
\* the one of the same list without that sample.
Thm_C7 ==
    pc \in {"edges", "panic"} =>
        \A i \in 1..Len(metrics) :
            ClaimExcluded(metrics[i]) =>
                [edges |-> edges, panic |-> (pc = "panic")]
                    = metricsToEdges(RemoveAt(metrics, i), sourceFilters, destinationFilters)

\* A list with a sample excluded by a source filter and an accepted sample
\* was processed to the end.
Wit_C7 ==
    /\ pc = "edges"
    /\ edges # EmptyMap
    /\ \E i \in 1..Len(metrics) : ClaimSourceKey(metrics[i]) \in sourceFilters

\* A sample excluded by a destination filter only was processed.
Wit_C7Destination ==
    /\ pc = "edges"
    /\ edges # EmptyMap
    /\ \E i \in 1..Len(metrics) :
          /\ ClaimSourceKey(metrics[i]) \notin sourceFilters
          /\ ClaimDestinationKey(metrics[i]) \in destinationFilters

(***************************************************************************)
(* Specification of edgesToNodes: it is given an edge map metricsToEdges    *)
(* returns and visits the edges in any order (a Go map has no order).       *)
(***************************************************************************)
NodeSampleUniverse ==
    {Metric(MetricHTTPRequests, WithLabel(r, "response_code", "200"), 2) :
         r \in {RouteWebApi1, RouteWebApi2}}
    \cup {Metric(MetricHTTPRequests, WithLabel(r, "response_code", "200"), 1) :
         r \in {RouteWebWaypointDb, RouteWaypointSelf}}
    \cup {Metric(MetricHTTPRequests, WithLabel(RouteWebApi1, "response_code", "503"), 2),
          Metric(MetricGRPCRequests, WithLabel(RouteApi1Db, "grpc_response_status", "0"), 2),
          Metric(MetricGRPCRequests, WithLabel(RouteApi1Db, "grpc_response_status", "13"), 1),
          Metric(MetricGRPCSentMessages, RouteApi1Db, 1),
          Metric(MetricGRPCReceivedMessages, RouteApi1Db, 2),
          Metric(MetricTCPSentBytes, RouteWebApi2, 3),
          Metric(MetricTCPSentBytes, RouteWaypointSelf, 3),
          Metric(MetricTCPReceivedBytes, RouteWebApi2, 1)}

EdgeMaps ==
    {metricsToEdges(ms, {}, {}).edges : ms \in SeqsUpTo(NodeSampleUniverse, MaxNodeSamples)}

InitNodes ==
    /\ pc = "edgesToNodes"
    /\ edges \in EdgeMaps
    /\ heap = EdgeHeap(edges)
    /\ visited = {}
    /\ nodes = EmptyMap
    /\ metrics = <<>> /\ sourceFilters = {} /\ destinationFilters = {} /\ idx = 0
    /\ result = <<>> /\ again = <<>>
    /\ IdleProjection
    /\ IdleGraph
    /\ IdleHealth
    /\ IdleValues

VisitEdge ==
    /\ pc = "edgesToNodes"
    /\ \E id \in DOMAIN edges \ visited :
          LET edge == [edges[id] EXCEPT !.GRPCResponseCodes = EdgeMap(id, "GRPC"),
                                       !.HTTPResponseCodes = EdgeMap(id, "HTTP")]
              st == VisitedEdge([nodes |-> nodes, heap |-> heap], edge)
          IN  /\ nodes' = st.nodes
              /\ heap' = st.heap
              /\ visited' = visited \cup {id}
    /\ UNCHANGED <<pc, metrics, sourceFilters, destinationFilters, idx, result, again, edges, projectionVars, graphVars, healthVars, valuesVars>>

ReturnNodes ==
    /\ pc = "edgesToNodes"
    /\ visited = DOMAIN edges
    /\ pc' = "nodes"
    /\ UNCHANGED <<metrics, sourceFilters, destinationFilters, idx, result, again, edges,
                   heap, visited, nodes, projectionVars, graphVars, healthVars, valuesVars>>

NextNodes == VisitEdge \/ ReturnNodes

SpecNodes == InitNodes /\ [][NextNodes]_vars

(***************************************************************************)
(* Properties of edgesToNodes.                                              *)
(***************************************************************************)
EdgeCounters ==
    {"GRPCRequestsSuccess", "GRPCRequestsError", "GRPCSentMessages", "GRPCReceivedMessages",
     "HTTPRequestsSuccess", "HTTPRequestsError", "TCPSentBytes", "TCPReceivedBytes"}

RECURSIVE SumOfCounter(_, _, _)
SumOfCounter(es, ids, counter) ==
    IF ids = {} THEN 0
    ELSE LET id == CHOOSE x \in ids : TRUE
         IN  es[id][counter] + SumOfCounter(es, ids \ {id}, counter)

\* C5: for every node and every scalar counter, the server-side value is the
\* sum of the counter over the edges whose destination is the node and the
\* client-side value the sum over the edges whose source is the node,
\* whatever the order of the visits.
Thm_C5 ==
    pc = "nodes" =>
        \A n \in DOMAIN nodes : \A c \in EdgeCounters :
            /\ nodes[n]["Server" \o c]
                  = SumOfCounter(edges, {id \in DOMAIN edges : edges[id].Destination = n}, c)
            /\ nodes[n]["Client" \o c]
                  = SumOfCounter(edges, {id \in DOMAIN edges : edges[id].Source = n}, c)

\* A node that is the source of two edges with traffic and a node that is
\* source and destination of the same edge were aggregated.
Wit_C5 ==
    /\ pc = "nodes"
    /\ \E a, b \in DOMAIN edges :
          /\ a # b
          /\ edges[a].Source = edges[b].Source
          /\ edges[a].HTTPRequestsSuccess > 0 /\ edges[b].HTTPRequestsSuccess > 0
          /\ nodes[edges[a].Source].ClientHTTPRequestsSuccess
                = edges[a].HTTPRequestsSuccess + edges[b].HTTPRequestsSuccess

\* A node that is source and destination of one edge was aggregated.
Wit_C5SelfLoop ==
    /\ pc = "nodes"
    /\ \E a \in DOMAIN edges :
          /\ edges[a].Source = edges[a].Destination
          /\ nodes[edges[a].Source].ServerHTTPRequestsSuccess > 0
          /\ nodes[edges[a].Source].ClientHTTPRequestsSuccess > 0

(***************************************************************************)
(* Specification of the projection: getEdgeField is applied to an edge and  *)
(* getNodeField to a node, with counters, time range and thresholds drawn   *)
(* from bounded sets.                                                       *)
(***************************************************************************)
\* <<success, error>> of one protocol.
RequestPairs ==
    {<<0, 0>>, <<100, 0>>, <<99, 1>>, <<98, 2>>, <<95, 5>>, <<94, 6>>,
     <<50, 0>>, <<49, 1>>, <<10, 2>>, <<93, 7>>, <<71, 29>>, <<31, 1>>}

NodeRequestPairs == {<<0, 0>>, <<98, 2>>, <<94, 6>>, <<50, 0>>}

\* <<sent, received>> bytes.
BytePairs == {<<0, 0>>, <<3, 0>>, <<3, 1>>}

NodeBytePairs == {<<0, 0>>, <<3, 1>>}

Durations == {0, 7}

\* int64(timeRange.Duration().Seconds()): 0 for a time range under one second.
Intervals == {0, 8, 10}

\* istioWarningThreshold and istioErrorThreshold of the plugin settings; 0 is
\* an unset field.
ThresholdSettings ==
    {[IstioWarningThreshold |-> 0, IstioErrorThreshold |-> 0],
     [IstioWarningThreshold |-> 1, IstioErrorThreshold |-> 5],
     [IstioWarningThreshold |-> 1, IstioErrorThreshold |-> 10],
     [IstioWarningThreshold |-> 1, IstioErrorThreshold |-> 20],
     [IstioWarningThreshold |-> 10, IstioErrorThreshold |-> 0],
     [IstioWarningThreshold |-> 7, IstioErrorThreshold |-> 10],
     [IstioWarningThreshold |-> 1, IstioErrorThreshold |-> 29]}

EdgeInputs ==
    {[WorkloadToServiceEdge(Metric(MetricHTTPRequests, RouteWebApi1, 0)) EXCEPT
          !.GRPCRequestsSuccess = g[1], !.GRPCRequestsError = g[2],
          !.HTTPRequestsSuccess = h[1], !.HTTPRequestsError = h[2],
          !.GRPCRequestDuration = gd, !.HTTPRequestDuration = hd,
          !.TCPSentBytes = b[1], !.TCPReceivedBytes = b[2]] :
        g \in RequestPairs, h \in RequestPairs, b \in BytePairs,
        gd \in Durations, hd \in Durations}

NodeInputs ==
    {[DestinationNode(e) EXCEPT
          !.ServerGRPCRequestsSuccess = sg[1], !.ServerGRPCRequestsError = sg[2],
          !.ServerHTTPRequestsSuccess = sh[1], !.ServerHTTPRequestsError = sh[2],
          !.ServerTCPSentBytes = sb[1], !.ServerTCPReceivedBytes = sb[2],
          !.ClientGRPCRequestsSuccess = cg[1], !.ClientGRPCRequestsError = cg[2],
          !.ClientHTTPRequestsSuccess = ch[1], !.ClientHTTPRequestsError = ch[2],
          !.ClientTCPSentBytes = cb[1], !.ClientTCPReceivedBytes = cb[2]] :
        e \in {WorkloadToServiceEdge(Metric(MetricHTTPRequests, RouteWebApi1, 0)),
               ServiceToWorkloadEdge(Metric(MetricHTTPRequests, RouteWebApi1, 0))},
        sg \in NodeRequestPairs, sh \in NodeRequestPairs, sb \in NodeBytePairs,
        cg \in NodeRequestPairs, ch \in NodeRequestPairs, cb \in NodeBytePairs}

IsEdge(x) == "SourceType" \in DOMAIN x

InitProjection ==
    /\ pc = "project"
    /\ \E settings \in ThresholdSettings :
          /\ istioWarningThreshold = DefaultedWarningThreshold(settings)
          /\ istioErrorThreshold = DefaultedErrorThreshold(settings)
    /\ subject \in EdgeInputs \cup NodeInputs
    /\ interval \in Intervals
    /\ field = EmptyMap
    /\ metrics = <<>> /\ result = <<>> /\ again = <<>>
    /\ IdleEdges
    /\ IdleNodes
    /\ IdleGraph
    /\ IdleHealth
    /\ IdleValues

ProjectEdge ==
    /\ pc = "project"
    /\ IsEdge(subject)
    /\ field' = getEdgeField(subject, interval, istioWarningThreshold, istioErrorThreshold)
    /\ pc' = "edgeField"
    /\ UNCHANGED <<metrics, sourceFilters, destinationFilters, idx, result, again, edges,
                   heap, visited, nodes,
                   istioWarningThreshold, istioErrorThreshold, subject, interval, graphVars, healthVars, valuesVars>>

ProjectNode ==
    /\ pc = "project"
    /\ ~IsEdge(subject)
    /\ field' = getNodeField(subject, interval, istioWarningThreshold, istioErrorThreshold)
    /\ pc' = "nodeField"
    /\ UNCHANGED <<metrics, sourceFilters, destinationFilters, idx, result, again, edges,
                   heap, visited, nodes,
                   istioWarningThreshold, istioErrorThreshold, subject, interval, graphVars, healthVars, valuesVars>>

NextProjection == ProjectEdge \/ ProjectNode

SpecProjection == InitProjection /\ [][NextProjection]_vars

(***************************************************************************)
(* Properties of getEdgeField and getNodeField.                             *)
(***************************************************************************)
HTTPVolume == subject.HTTPRequestsSuccess + subject.HTTPRequestsError
GRPCVolume == subject.GRPCRequestsSuccess + subject.GRPCRequestsError
TCPVolume == subject.TCPSentBytes + subject.TCPReceivedBytes

\* The main stat of a protocol: its rate, then its error percentage when
\* the protocol has errors.
StatOf(rate, errorPercent, errorCount) ==
    IF errorCount > 0 THEN <<rate[1], errorPercent[1]>> ELSE <<rate[1]>>

\* C8: the main stat is the HTTP rate (with the HTTP error percentage when it
\* is positive) iff the HTTP volume exceeds the gRPC volume; else the gRPC
\* rate iff the gRPC volume is positive (equal volumes select gRPC); else
\* the combined TCP byte rate with no secondary stat iff there are TCP bytes;
\* else main and secondary stat are empty.  HTTP=100 with gRPC=50 selects
\* HTTP, and the swapped volumes select gRPC.
Thm_C8 ==
    pc = "edgeField" =>
        /\ HTTPVolume > GRPCVolume =>
              field.MainStat
                = StatOf(field.DetailsHTTPRate, field.DetailsHTTPErr, subject.HTTPRequestsError)
        /\ (HTTPVolume <= GRPCVolume /\ GRPCVolume > 0) =>
              field.MainStat
                = StatOf(field.DetailsGRPCRate, field.DetailsGRPCErr, subject.GRPCRequestsError)
        /\ (HTTPVolume = 0 /\ GRPCVolume = 0 /\ TCPVolume > 0) =>
              /\ field.MainStat = <<Bps(TCPVolume, interval)>>
              /\ field.SecondaryStat = <<>>
        /\ (HTTPVolume = 0 /\ GRPCVolume = 0 /\ TCPVolume = 0) =>
              field.MainStat = <<>> /\ field.SecondaryStat = <<>>
        /\ (HTTPVolume = 100 /\ subject.HTTPRequestsError = 2
            /\ GRPCVolume = 50 /\ interval = 10) =>
              field.MainStat = <<"10.00rps", "2.00%">>
        /\ (HTTPVolume = 50 /\ GRPCVolume = 100 /\ subject.GRPCRequestsError = 0
            /\ interval = 10) =>
              field.MainStat = <<"10.00rps">>

\* Equal non-zero volumes with HTTP errors only: gRPC was selected.
Wit_C8 ==
    /\ pc = "edgeField"
    /\ HTTPVolume = 100 /\ GRPCVolume = 100
    /\ subject.HTTPRequestsError = 2 /\ subject.GRPCRequestsError = 0
    /\ field.MainStat = <<"10.00rps">>
    /\ interval = 10

\* The error rate of the protocol the cascade selects, as a quotient.
WinningErrors ==
    IF HTTPVolume > GRPCVolume THEN subject.HTTPRequestsError ELSE subject.GRPCRequestsError

WinningVolume == IF HTTPVolume > GRPCVolume THEN HTTPVolume ELSE GRPCVolume

RequestTraffic == HTTPVolume > 0 \/ GRPCVolume > 0

\* The error rate of that protocol: the float64 of error / volume * 100.
WinningRate == ErrRate(WinningVolume - WinningErrors, WinningErrors)

\* error rate >= t, > t, <= t and < t percent, as float64 values compare.
RateAtLeast(t) == Compare(WinningRate, t) >= 0
RateAbove(t) == Compare(WinningRate, t) > 0
RateAtMost(t) == Compare(WinningRate, t) <= 0
RateBelow(t) == Compare(WinningRate, t) < 0

FiveColors == {ColorCritical, ColorWarning, ColorHealthy, ColorTCP, ColorIdle}

ColorExamples ==
    (istioWarningThreshold = 1 /\ istioErrorThreshold = 5 /\ GRPCVolume = 0
     /\ HTTPVolume = 100) =>
        /\ subject.HTTPRequestsError = 0 => field.Color = ColorHealthy
        /\ subject.HTTPRequestsError = 2 => field.Color = ColorWarning
        /\ subject.HTTPRequestsError = 6 => field.Color = ColorCritical

\* C9 as stated: critical at or above the error threshold, warning above the
\* warning and below the error threshold, healthy with HTTP/gRPC traffic at
\* or below the warning threshold, the TCP colour for TCP traffic only, idle
\* without traffic.
Cex_C9 ==
    pc = "edgeField" =>
        /\ field.Color \in FiveColors
        /\ (RequestTraffic /\ RateAtLeast(istioErrorThreshold)) => field.Color = ColorCritical
        /\ (RequestTraffic /\ RateAbove(istioWarningThreshold)
            /\ RateBelow(istioErrorThreshold)) => field.Color = ColorWarning
        /\ (RequestTraffic /\ RateAtMost(istioWarningThreshold)) => field.Color = ColorHealthy
        /\ (~RequestTraffic /\ TCPVolume > 0) => field.Color = ColorTCP
        /\ (~RequestTraffic /\ TCPVolume = 0) => field.Color = ColorIdle
        /\ ColorExamples

\* C9 (amended): as stated, but healthy only when the error rate is also
\* below the error threshold.
Thm_C9 ==
    pc = "edgeField" =>
        /\ field.Color \in FiveColors
        /\ (RequestTraffic /\ RateAtLeast(istioErrorThreshold)) => field.Color = ColorCritical
        /\ (RequestTraffic /\ RateAbove(istioWarningThreshold)
            /\ RateBelow(istioErrorThreshold)) => field.Color = ColorWarning
        /\ (RequestTraffic /\ RateAtMost(istioWarningThreshold)
            /\ RateBelow(istioErrorThreshold)) => field.Color = ColorHealthy
        /\ (~RequestTraffic /\ TCPVolume > 0) => field.Color = ColorTCP
        /\ (~RequestTraffic /\ TCPVolume = 0) => field.Color = ColorIdle
        /\ ColorExamples

\* An error rate equal to the error threshold was coloured critical.
Wit_C9 ==
    /\ pc = "edgeField"
    /\ istioWarningThreshold = 1 /\ istioErrorThreshold = 5
    /\ HTTPVolume = 100 /\ subject.HTTPRequestsError = 5 /\ GRPCVolume = 50
    /\ field.Color = ColorCritical

\* 29 errors in 100 requests with an error threshold of 29: the float64 of
\* 29 / 100 * 100 is below 29, the edge is coloured warning and shows 29.00%.
Wit_C9RoundedBelow ==
    /\ pc = "edgeField"
    /\ istioWarningThreshold = 1 /\ istioErrorThreshold = 29
    /\ HTTPVolume = 100 /\ subject.HTTPRequestsError = 29 /\ GRPCVolume = 0
    /\ ~RateAtLeast(29)
    /\ field.DetailsHTTPErr = <<"29.00%">>
    /\ field.Color = ColorWarning

\* 7 errors in 100 requests with a warning threshold of 7: the float64 of
\* 7 / 100 * 100 is above 7 and the edge is coloured warning.
Wit_C9RoundedAbove ==
    /\ pc = "edgeField"
    /\ istioWarningThreshold = 7 /\ istioErrorThreshold = 10
    /\ HTTPVolume = 100 /\ subject.HTTPRequestsError = 7 /\ GRPCVolume = 0
    /\ RateAbove(7)
    /\ field.DetailsHTTPErr = <<"7.00%">>
    /\ field.Color = ColorWarning

\* Quotients that lie halfway between two hundredths go to the even one:
\* 3 and 1 bytes in 8 seconds, 1 error in 32 requests.
Wit_TiesToEven ==
    /\ pc = "edgeField" /\ interval = 8
    /\ field.DetailsTCPSentBytes = <<"0.38bps">>
    /\ field.DetailsTCPReceivedBytes = <<"0.12bps">>
    /\ field.DetailsHTTPRate = <<"4.00rps">>
    /\ field.DetailsHTTPErr = <<"3.12%">>

\* A time range under one second: the rates are +Inf, or NaN for 0 / 0.
Wit_ZeroInterval ==
    /\ pc = "edgeField" /\ interval = 0
    /\ field.MainStat = <<"+Infrps", "2.00%">>
    /\ field.DetailsGRPCRate = <<"NaNrps">>
    /\ field.SecondaryStat = <<"+Infbps">>

NoServerTraffic(node) ==
    /\ node.ServerHTTPRequestsSuccess + node.ServerHTTPRequestsError = 0
    /\ node.ServerGRPCRequestsSuccess + node.ServerGRPCRequestsError = 0
    /\ node.ServerTCPSentBytes + node.ServerTCPReceivedBytes = 0

WithoutClientSide(node) ==
    [node EXCEPT
        !.ClientGRPCRequestsSuccess = 0, !.ClientGRPCRequestsError = 0,
        !.ClientGRPCSentMessages = 0, !.ClientGRPCReceivedMessages = 0,
        !.ClientHTTPRequestsSuccess = 0, !.ClientHTTPRequestsError = 0,
        !.ClientTCPSentBytes = 0, !.ClientTCPReceivedBytes = 0]

\* C10: for a Workload node whose server-side HTTP volume, gRPC volume and
\* TCP bytes are not all zero, main stat, secondary stat and colour are
\* those of the server side alone.
Cex_C10 ==
    (pc = "nodeField" /\ subject.Type = "Workload" /\ ~NoServerTraffic(subject)) =>
        LET serverOnly == getNodeField(WithoutClientSide(subject), interval,
                                       istioWarningThreshold, istioErrorThreshold)
        IN  /\ field.MainStat = serverOnly.MainStat
            /\ field.SecondaryStat = serverOnly.SecondaryStat
            /\ field.Color = serverOnly.Color

(***************************************************************************)
(* handleGraph: one goroutine per requested metric fetches the samples in   *)
(* which the subject is the destination and those in which it is the        *)
(* source; after the join the handler returns the first recorded error or   *)
(* the edge and node frames.                                                *)
(***************************************************************************)
MaxMetrics == 2        \* longest list of metrics given to handleGraph

GraphMetricNames ==
    <<MetricHTTPRequests, MetricTCPSentBytes, MetricGRPCRequests, MetricHTTPRequestDuration,
      MetricGRPCRequestDuration, MetricGRPCSentMessages, MetricGRPCReceivedMessages,
      MetricTCPReceivedBytes>>

\* The samples the Prometheus server holds for a metric and a direction.
Store(metric, direction) ==
    LET ok == Metric(MetricHTTPRequests, WithLabel(RouteWebApi1, "response_code", "200"), 10)
        unavailable ==
            Metric(MetricHTTPRequests, WithLabel(RouteWebApi1, "response_code", "503"), 2)
        sent == Metric(MetricTCPSentBytes, RouteWebApi1, 3)
        grpcOk == Metric(MetricGRPCRequests, WithLabel(RouteWebApi1, "grpc_response_status", "0"), 5)
        meshOk == Metric(MetricHTTPRequests, WithLabel(RouteWaypointApi1, "response_code", "200"), 1)
        meshSent == Metric(MetricTCPSentBytes, RouteWaypointApi2, 3)
    IN  CASE metric = MetricHTTPRequests /\ direction = "destination" -> <<ok, meshOk>>
          [] metric = MetricHTTPRequests /\ direction = "source" -> <<ok, unavailable>>
          [] metric = MetricTCPSentBytes -> <<sent, meshSent>>
          [] metric = MetricGRPCRequests /\ direction = "destination" -> <<grpcOk>>
          [] OTHER -> <<>>

Err(metric, direction) == "failed to get " \o metric \o " (" \o direction \o ")"

GetMetrics(metric, direction, failed) ==
    IF <<metric, direction>> \in failed
    THEN [metrics |-> <<>>, err |-> Err(metric, direction)]
    ELSE [metrics |-> Store(metric, direction), err |-> ""]

LastError(errs) == errs[Len(errs)]

\* The error handleGraph surfaces.
ReturnedError(errs) == errs[1]

RECURSIVE Join(_, _)
Join(parts, sep) ==
    IF Len(parts) = 0 THEN ""
    ELSE IF Len(parts) = 1 THEN parts[1]
    ELSE parts[1] \o sep \o Join(Tail(parts), sep)

EdgeRow(edgeField) ==
    [id |-> edgeField.ID, source |-> edgeField.Source, target |-> edgeField.Destination,
     mainstat |-> Join(edgeField.MainStat, " | "),
     secondarystat |-> Join(edgeField.SecondaryStat, " | "),
     color |-> edgeField.Color,
     detail__grpcrate |-> Join(edgeField.DetailsGRPCRate, " | "),
     detail__grpcperr |-> Join(edgeField.DetailsGRPCErr, " | "),
     detail__grpcduration |-> Join(edgeField.DetailsGRPCDuration, " | "),
     detail__grpcsentmessages |-> Join(edgeField.DetailsGRPCSentMessages, " | "),
     detail__grpcreceivedmessages |-> Join(edgeField.DetailsGRPCReceivedMessages, " | "),
     detail__httprate |-> Join(edgeField.DetailsHTTPRate, " | "),
     detail__httperr |-> Join(edgeField.DetailsHTTPErr, " | "),
     detail__httpduration |-> Join(edgeField.DetailsHTTPDuration, " | "),
     detail__tcpsentbytes |-> Join(edgeField.DetailsTCPSentBytes, " | "),
     detail__tcpreceivedbytes |-> Join(edgeField.DetailsTCPReceivedBytes, " | ")]

\* The dashboards of the plugin settings and the time range of the query.
GraphSettings ==
    [istioServiceDashboard |-> "/d/service?orgId=1",
     istioWorkloadDashboard |-> "/d/workload?orgId=1",
     from |-> 0, to |-> 10000]

NodeLink(node) ==
    LET range == "&from=" \o ToString(GraphSettings.from) \o "&to=" \o ToString(GraphSettings.to)
    IN  CASE node.Type = "Service" ->
               GraphSettings.istioServiceDashboard \o "&var-service=" \o node.Service \o range
          [] node.Type = "Workload" ->
               GraphSettings.istioWorkloadDashboard \o "&var-namespace=" \o node.Namespace
                   \o "&var-workload=" \o node.Name \o range
          [] OTHER -> ""

NodeRow(node, nodeField) ==
    [id |-> nodeField.ID, title |-> node.Type,
     subtitle |-> node.Name \o " (" \o node.Namespace \o ")",
     mainstat |-> Join(nodeField.MainStat, " | "),
     secondarystat |-> Join(nodeField.SecondaryStat, " | "),
     color |-> nodeField.Color,
     detail__grpcrate |-> Join(nodeField.DetailsGRPCRate, " | "),
     detail__grpcperr |-> Join(nodeField.DetailsGRPCErr, " | "),
     detail__grpcsentmessages |-> Join(nodeField.DetailsGRPCSentMessages, " | "),
     detail__grpcreceivedmessages |-> Join(nodeField.DetailsGRPCReceivedMessages, " | "),
     detail__httprate |-> Join(nodeField.DetailsHTTPRate, " | "),
     detail__httperr |-> Join(nodeField.DetailsHTTPErr, " | "),
     detail__tcpsentbytes |-> Join(nodeField.DetailsTCPSentBytes, " | "),
     detail__tcpreceivedbytes |-> Join(nodeField.DetailsTCPReceivedBytes, " | "),
     link |-> NodeLink(node)]

\* The orders in which a range loop can visit the keys of a map.
Orders(keys) == {order \in [1..Cardinality(keys) -> keys] : Range(order) = keys}

\* edgesToNodes visiting the edges in the given order.
RECURSIVE NodesInOrder(_, _, _, _)
NodesInOrder(st, es, order, i) ==
    IF i > Len(order) THEN st
    ELSE LET id == order[i]
             edge == [es[id] EXCEPT !.GRPCResponseCodes = EdgeMap(id, "GRPC"),
                                    !.HTTPResponseCodes = EdgeMap(id, "HTTP")]
         IN  NodesInOrder(VisitedEdge(st, edge), es, order, i + 1)

edgesToNodes(es, order) ==
    NodesInOrder([nodes |-> EmptyMap, heap |-> EdgeHeap(es)], es, order, 1)

\* The thresholds of the plugin settings under which a graph is built.
GraphThresholds ==
    {[IstioWarningThreshold |-> 1, IstioErrorThreshold |-> 20],
     [IstioWarningThreshold |-> 1, IstioErrorThreshold |-> 10]}

NotStarted == [pc |-> "notStarted", destinationMetrics |-> <<>>, sourceMetrics |-> <<>>, err |-> ""]

InitGraph ==
    /\ pc = "handleGraph"
    /\ requested \in {SubSeq(GraphMetricNames, 1, n) : n \in 0..MaxMetrics}
    /\ failing \in SUBSET (Range(requested) \X {"destination", "source"})
    /\ tasks = [i \in 1..Len(requested) |-> NotStarted]
    /\ errors = <<>> /\ errorsMutex = 0
    /\ prometheusMetrics = <<>> /\ prometheusMetricsMutex = 0
    /\ metricsWG = Len(requested)
    /\ response = NoResponse
    /\ queries = {}
    /\ idx = 1
    /\ sourceFilters = {} /\ destinationFilters = {}
    /\ edges = EmptyMap
    /\ metrics = <<>> /\ result = <<>> /\ again = <<>>
    /\ IdleNodes
    /\ \E settings \in GraphThresholds :
          /\ istioWarningThreshold = DefaultedWarningThreshold(settings)
          /\ istioErrorThreshold = DefaultedErrorThreshold(settings)
    /\ interval = (GraphSettings.to - GraphSettings.from) \div 1000
    /\ subject = EmptyMap /\ field = EmptyMap
    /\ IdleHealth
    /\ IdleValues

graphData == <<metrics, sourceFilters, destinationFilters, result, again, edges, heap,
               visited, nodes, projectionVars, requested, failing, healthVars, valuesVars>>

\* go func(metric string) {...}(metric)
Go ==
    /\ pc = "handleGraph"
    /\ idx <= Len(requested)
    /\ tasks' = [tasks EXCEPT ![idx].pc = "fetchDestination"]
    /\ idx' = idx + 1
    /\ UNCHANGED <<pc, graphData, queries, errors, errorsMutex, prometheusMetrics,
                   prometheusMetricsMutex, metricsWG, response>>

\* A goroutine that goes on to the source fetch after a failed destination fetch.
FetchDestinationContinuing(i) ==
    /\ tasks[i].pc = "fetchDestination"
    /\ queries' = queries \cup {<<requested[i], "destination">>}
    /\ LET fetched == GetMetrics(requested[i], "destination", failing)
       IN  tasks' = [tasks EXCEPT ![i].err = fetched.err,
                                  ![i].destinationMetrics = fetched.metrics,
                                  ![i].pc = "fetchSource"]
    /\ UNCHANGED <<pc, idx, graphData, errors, errorsMutex, prometheusMetrics,
                   prometheusMetricsMutex, metricsWG, response>>

FetchDestination(i) ==
    /\ tasks[i].pc = "fetchDestination"
    /\ queries' = queries \cup {<<requested[i], "destination">>}
    /\ LET fetched == GetMetrics(requested[i], "destination", failing)
       IN  tasks' = IF fetched.err # ""
                    THEN [tasks EXCEPT ![i].err = fetched.err, ![i].pc = "lockErrors"]
                    ELSE [tasks EXCEPT ![i].destinationMetrics = fetched.metrics,
                                       ![i].pc = "fetchSource"]
    /\ UNCHANGED <<pc, idx, graphData, errors, errorsMutex, prometheusMetrics,
                   prometheusMetricsMutex, metricsWG, response>>

FetchSource(i) ==
    /\ tasks[i].pc = "fetchSource"
    /\ queries' = queries \cup {<<requested[i], "source">>}
    /\ LET fetched == GetMetrics(requested[i], "source", failing)
       IN  tasks' = IF fetched.err # ""
                    THEN [tasks EXCEPT ![i].err = fetched.err, ![i].pc = "lockErrors"]
                    ELSE [tasks EXCEPT ![i].sourceMetrics = fetched.metrics,
                                       ![i].pc = "lockMetrics"]
    /\ UNCHANGED <<pc, idx, graphData, errors, errorsMutex, prometheusMetrics,
                   prometheusMetricsMutex, metricsWG, response>>

LockErrors(i) ==
    /\ tasks[i].pc = "lockErrors"
    /\ errorsMutex = 0
    /\ errorsMutex' = i
    /\ tasks' = [tasks EXCEPT ![i].pc = "appendError"]
    /\ UNCHANGED <<pc, idx, graphData, queries, errors, prometheusMetrics,
                   prometheusMetricsMutex, metricsWG, response>>

AppendError(i) ==
    /\ tasks[i].pc = "appendError"
    /\ errors' = Append(errors, tasks[i].err)
    /\ tasks' = [tasks EXCEPT ![i].pc = "unlockErrors"]
    /\ UNCHANGED <<pc, idx, graphData, queries, errorsMutex, prometheusMetrics,
                   prometheusMetricsMutex, metricsWG, response>>

UnlockErrors(i) ==
    /\ tasks[i].pc = "unlockErrors"
    /\ errorsMutex' = 0
    /\ tasks' = [tasks EXCEPT ![i].pc = "done"]
    /\ UNCHANGED <<pc, idx, graphData, queries, errors, prometheusMetrics,
                   prometheusMetricsMutex, metricsWG, response>>

\* A goroutine that appends without waiting for the lock.
LockMetricsWithoutExclusion(i) ==
    /\ tasks[i].pc = "lockMetrics"
    /\ prometheusMetricsMutex' = i
    /\ tasks' = [tasks EXCEPT ![i].pc = "appendDestination"]
    /\ UNCHANGED <<pc, idx, graphData, queries, errors, errorsMutex, prometheusMetrics,
                   metricsWG, response>>

LockMetrics(i) ==
    /\ tasks[i].pc = "lockMetrics"
    /\ prometheusMetricsMutex = 0
    /\ prometheusMetricsMutex' = i
    /\ tasks' = [tasks EXCEPT ![i].pc = "appendDestination"]
    /\ UNCHANGED <<pc, idx, graphData, queries, errors, errorsMutex, prometheusMetrics,
                   metricsWG, response>>

AppendDestination(i) ==
    /\ tasks[i].pc = "appendDestination"
    /\ prometheusMetrics' = prometheusMetrics \o tasks[i].destinationMetrics
    /\ tasks' = [tasks EXCEPT ![i].pc = "appendSource"]
    /\ UNCHANGED <<pc, idx, graphData, queries, errors, errorsMutex,
                   prometheusMetricsMutex, metricsWG, response>>

AppendSource(i) ==
    /\ tasks[i].pc = "appendSource"
    /\ prometheusMetrics' = prometheusMetrics \o tasks[i].sourceMetrics
    /\ tasks' = [tasks EXCEPT ![i].pc = "unlockMetrics"]
    /\ UNCHANGED <<pc, idx, graphData, queries, errors, errorsMutex,
                   prometheusMetricsMutex, metricsWG, response>>

UnlockMetrics(i) ==
    /\ tasks[i].pc = "unlockMetrics"
    /\ prometheusMetricsMutex' = 0
    /\ tasks' = [tasks EXCEPT ![i].pc = "done"]
    /\ UNCHANGED <<pc, idx, graphData, queries, errors, errorsMutex, prometheusMetrics,
                   metricsWG, response>>

\* defer metricsWG.Done()
Done(i) ==
    /\ tasks[i].pc = "done"
    /\ metricsWG' = metricsWG - 1
    /\ tasks' = [tasks EXCEPT ![i].pc = "returned"]
    /\ UNCHANGED <<pc, idx, graphData, queries, errors, errorsMutex, prometheusMetrics,
                   prometheusMetricsMutex, response>>

\* The handler going on as soon as it has started the goroutines.
JoinedWithoutWaiting == pc = "handleGraph" /\ idx > Len(requested)

\* metricsWG.Wait() returns
Joined == pc = "handleGraph" /\ idx > Len(requested) /\ metricsWG = 0

ReturnError ==
    /\ Joined
    /\ Len(errors) > 0
    /\ response' = [Error |-> ReturnedError(errors), Frames |-> <<>>]
    /\ pc' = "returned"
    /\ UNCHANGED <<idx, graphData, queries, tasks, errors, errorsMutex, prometheusMetrics,
                   prometheusMetricsMutex, metricsWG>>

ReturnGraph ==
    /\ Joined
    /\ Len(errors) = 0
    /\ LET deduplicated == deduplicateMetrics(prometheusMetrics)
           built == metricsToEdges(deduplicated, sourceFilters, destinationFilters)
       IN  /\ prometheusMetrics' = deduplicated
           /\ IF built.panic
              THEN /\ pc' = "panic"
                   /\ UNCHANGED <<edges, heap, nodes, response>>
              ELSE \E visit \in Orders(DOMAIN built.edges) :
                     LET st == edgesToNodes(built.edges, visit)
                     IN  \E edgeRows \in {[id \in DOMAIN built.edges |->
                                              EdgeRow(getEdgeField(built.edges[id], interval,
                                                  istioWarningThreshold, istioErrorThreshold))]},
                            nodeRows \in {[id \in DOMAIN st.nodes |->
                                              NodeRow(st.nodes[id],
                                                  getNodeField(st.nodes[id], interval,
                                                      istioWarningThreshold, istioErrorThreshold))]},
                            edgeOrder \in Orders(DOMAIN built.edges),
                            nodeOrder \in Orders(DOMAIN st.nodes) :
                            /\ edges' = built.edges
                            /\ nodes' = st.nodes
                            /\ heap' = st.heap
                            /\ response' =
                                 [Error |-> "",
                                  Frames |->
                                    <<[Name |-> "edges",
                                       Rows |-> [k \in DOMAIN edgeOrder |-> edgeRows[edgeOrder[k]]]],
                                      [Name |-> "nodes",
                                       Rows |-> [k \in DOMAIN nodeOrder |-> nodeRows[nodeOrder[k]]]]>>]
                            /\ pc' = "returned"
    /\ UNCHANGED <<idx, metrics, sourceFilters, destinationFilters, result, again, visited,
                   projectionVars, requested, failing, tasks, errors, errorsMutex,
                   prometheusMetricsMutex, metricsWG, queries, healthVars, valuesVars>>

NextGraph ==
    \/ Go
    \/ \E i \in 1..Len(requested) :
          \/ FetchDestination(i) \/ FetchSource(i)
          \/ LockErrors(i) \/ AppendError(i) \/ UnlockErrors(i)
          \/ LockMetrics(i) \/ AppendDestination(i) \/ AppendSource(i) \/ UnlockMetrics(i)
          \/ Done(i)
    \/ ReturnError
    \/ ReturnGraph

SpecGraph == InitGraph /\ [][NextGraph]_vars

\* C1: once handleGraph has returned with a recorded error, the response
\* carries the error appended first and has no frame; a task that failed a
\* fetch has recorded its error by then, and frames never exist alongside a
\* recorded error.
Thm_C1 ==
    /\ (pc = "returned" /\ \E i \in DOMAIN tasks : tasks[i].err # "") =>
          /\ Len(errors) > 0
          /\ response.Error = errors[1]
          /\ response.Frames = <<>>
          /\ \A i \in DOMAIN tasks :
                tasks[i].err # "" => \E k \in DOMAIN errors : errors[k] = tasks[i].err
    /\ Len(errors) > 0 => response.Frames = <<>>

\* Two fetches failed, the second requested metric recorded its error first,
\* the first metric's error came later, and the response carries the former.
Wit_C1 ==
    /\ pc = "returned"
    /\ Len(requested) >= 2
    /\ Len(errors) >= 2
    /\ errors[1] = tasks[2].err
    /\ errors[2] = tasks[1].err
    /\ response.Error = tasks[2].err
    /\ response.Frames = <<>>

(***************************************************************************)
(* Service nodes.                                                           *)
(***************************************************************************)
ClientMessages == {0, 4}

\* The node with another client side.
WithClientSide(node, grpc, http, bytes, messages) ==
    [node EXCEPT
        !.ClientGRPCRequestsSuccess = grpc[1], !.ClientGRPCRequestsError = grpc[2],
        !.ClientGRPCSentMessages = messages, !.ClientGRPCReceivedMessages = messages,
        !.ClientHTTPRequestsSuccess = http[1], !.ClientHTTPRequestsError = http[2],
        !.ClientTCPSentBytes = bytes[1], !.ClientTCPReceivedBytes = bytes[2]]

\* C11: the field getNodeField returns for a Service node is the field it
\* returns for every node that has the same ID and server-side counters and
\* any other client-side counters: main stat, secondary stat, colour and
\* details do not depend on the client side.
Thm_C11 ==
    (pc = "nodeField" /\ subject.Type = "Service") =>
        \A grpc \in NodeRequestPairs, http \in NodeRequestPairs, bytes \in NodeBytePairs,
           messages \in ClientMessages :
            getNodeField(WithClientSide(subject, grpc, http, bytes, messages), interval,
                         istioWarningThreshold, istioErrorThreshold) = field

\* A Service node with client-side HTTP errors above the error threshold and
\* an error-free server side was projected healthy from its server side.
Wit_C11 ==
    /\ pc = "nodeField"
    /\ subject.Type = "Service"
    /\ subject.ClientHTTPRequestsSuccess = 94 /\ subject.ClientHTTPRequestsError = 6
    /\ subject.ServerHTTPRequestsSuccess = 50 /\ subject.ServerHTTPRequestsError = 0
    /\ subject.ServerGRPCRequestsSuccess = 0 /\ subject.ServerGRPCRequestsError = 0
    /\ istioErrorThreshold = 5
    /\ field.Color = ColorHealthy
    /\ field.MainStat = <<Rps(50, interval)>>

(***************************************************************************)
(* End-to-end scenario of handleGraph.                                      *)
(***************************************************************************)
ScenarioOk == Metric(MetricHTTPRequests, WithLabel(RouteWebApi1, "response_code", "200"), 10)

ScenarioUnavailable ==
    Metric(MetricHTTPRequests, WithLabel(RouteWebApi1, "response_code", "503"), 2)

ScenarioEdgeID == "workload-web-ns1-service-api-ns1"

\* The graph was built from samples whose HTTP-request samples with source
\* workload web are the two of the scenario, over a window of 10 seconds.
ScenarioBuilt ==
    /\ pc = "returned"
    /\ Len(errors) = 0
    /\ {prometheusMetrics[i] : i \in {j \in DOMAIN prometheusMetrics :
            /\ Label(prometheusMetrics[j], "metric") = MetricHTTPRequests
            /\ Label(prometheusMetrics[j], "source_workload") = "web"}}
         = {ScenarioOk, ScenarioUnavailable}
    /\ interval = 10

ScenarioRows ==
    {response.Frames[1].Rows[k] : k \in {j \in DOMAIN response.Frames[1].Rows :
        response.Frames[1].Rows[j].id = ScenarioEdgeID}}

ScenarioColor ==
    IF istioWarningThreshold = 1 /\ istioErrorThreshold = 20 THEN ColorWarning
    ELSE IF istioWarningThreshold = 1 /\ istioErrorThreshold = 10 THEN ColorCritical
    ELSE "other thresholds"

ScenarioCounters ==
    /\ ScenarioEdgeID \in DOMAIN edges
    /\ edges[ScenarioEdgeID].HTTPRequestsSuccess = 10
    /\ edges[ScenarioEdgeID].HTTPRequestsError = 2
    /\ Cardinality(ScenarioRows) = 1

\* C12 as stated: the edge of the scenario has HTTP success 10 and error 2
\* and its row shows the rate "1.2rps" and the error "16.67%" in the main
\* stat, coloured warning with thresholds 1/20 and critical with 1/10.
Cex_C12 ==
    ScenarioBuilt =>
        /\ ScenarioCounters
        /\ \A row \in ScenarioRows :
              /\ row.mainstat = "1.2rps | 16.67%"
              /\ row.color = ScenarioColor

\* C12 (amended): as stated, with the rate shown with two decimals, "1.20rps".
Thm_C12 ==
    ScenarioBuilt =>
        /\ ScenarioCounters
        /\ \A row \in ScenarioRows :
              /\ row.mainstat = "1.20rps | 16.67%"
              /\ row.detail__httprate = "1.20rps"
              /\ row.detail__httperr = "16.67%"
              /\ row.color = ScenarioColor

\* The scenario was built with thresholds 1/10 and its edge is critical.
Wit_C12 ==
    /\ ScenarioBuilt
    /\ istioWarningThreshold = 1 /\ istioErrorThreshold = 10
    /\ \E row \in ScenarioRows : row.color = ColorCritical /\ row.mainstat = "1.20rps | 16.67%"

\* The scenario was built with thresholds 1/20 and its edge is warning.
Wit_C12Warning ==
    /\ ScenarioBuilt
    /\ istioWarningThreshold = 1 /\ istioErrorThreshold = 20
    /\ \E row \in ScenarioRows : row.color = ColorWarning

(***************************************************************************)
(* Totality of metricsToEdges and unsupported metric kinds.                 *)
(***************************************************************************)
\* C13: metricsToEdges does not abort: no sample of the list makes the call
\* panic, whatever labels it carries, and the call returns an edge map.
Cex_C13 == pc # "panic"

\* C14: a sample whose metric kind is not one of the supported kinds is
\* ignored: the returned edge map is the edge map built from the same list
\* without that sample.
Cex_C14 ==
    pc = "edges" =>
        \A i \in 1..Len(metrics) :
            Label(metrics[i], "metric") \notin SupportedMetrics =>
                edges = metricsToEdges(RemoveAt(metrics, i), sourceFilters,
                                       destinationFilters).edges

(***************************************************************************)
(* Datasource.CheckHealth: the health check calls the build-info endpoint   *)
(* of Prometheus and reports the outcome.                                   *)
(***************************************************************************)
MaxHealthChecks == 3   \* health checks handled after the first

HealthStatusOk == "OK"
HealthStatusError == "ERROR"

\* The Prometheus URLs of the plugin settings and the ways the request can fail.
PrometheusURLs == {"", "http://wiremock:8080", "http://prometheus:9090", "https://prometheus.example"}

RequestFailures ==
    {"", "dial tcp: connection refused", "context deadline exceeded", "EOF",
     "server returned HTTP status 503 Service Unavailable", "x509: certificate signed by unknown authority"}

\* The error client.CheckHealth returns, "" for nil.
ClientCheckHealth(url, failure) ==
    IF url = ""
    THEN "Get \"/api/v1/status/buildinfo\": unsupported protocol scheme \"\""
    ELSE IF failure = "" THEN ""
    ELSE "Get \"" \o url \o "/api/v1/status/buildinfo\": " \o failure

BuildinfoErrors == {ClientCheckHealth(url, failure) : url \in PrometheusURLs, failure \in RequestFailures}

\* A health check that hands the error of the build-info call to its caller.
CheckHealthReturningError(err) ==
    IF err # ""
    THEN [res |-> [Status |-> HealthStatusError,
                   Message |-> "Prometheus health check failed: " \o err],
          err |-> err]
    ELSE [res |-> [Status |-> HealthStatusOk, Message |-> "Data source is working"],
          err |-> ""]

\* Datasource.CheckHealth for the given error of prometheusClient.CheckHealth.
CheckHealthResult(err) ==
    IF err # ""
    THEN [res |-> [Status |-> HealthStatusError,
                   Message |-> "Prometheus health check failed: " \o err],
          err |-> ""]
    ELSE [res |-> [Status |-> HealthStatusOk, Message |-> "Data source is working"],
          err |-> ""]

InitHealth ==
    /\ pc = "checkHealth"
    /\ healthChecks = 0
    /\ buildinfo \in BuildinfoErrors
    /\ health = NoHealth
    /\ metrics = <<>> /\ result = <<>> /\ again = <<>>
    /\ IdleEdges
    /\ IdleNodes
    /\ IdleProjection
    /\ IdleGraph
    /\ IdleValues

CheckHealth ==
    /\ pc = "checkHealth"
    /\ health' = CheckHealthResult(buildinfo)
    /\ pc' = "health"
    /\ UNCHANGED <<metrics, sourceFilters, destinationFilters, idx, result, again, edges,
                   heap, visited, nodes, projectionVars, graphVars, healthChecks, buildinfo,
                   valuesVars>>

\* Grafana sends the next health check.
NextHealthCheck ==
    /\ pc = "health"
    /\ healthChecks < MaxHealthChecks
    /\ healthChecks' = healthChecks + 1
    /\ buildinfo' \in BuildinfoErrors
    /\ health' = NoHealth
    /\ pc' = "checkHealth"
    /\ UNCHANGED <<metrics, sourceFilters, destinationFilters, idx, result, again, edges,
                   heap, visited, nodes, projectionVars, graphVars, valuesVars>>

NextHealth == CheckHealth \/ NextHealthCheck

SpecHealth == InitHealth /\ [][NextHealth]_vars

\* C15: CheckHealth returns no error value; its result has status Error and
\* the message "Prometheus health check failed: " followed by the cause
\* exactly when the build-info call failed, and status Ok with the message
\* "Data source is working" exactly when the call succeeded.
Thm_C15 ==
    pc = "health" =>
        /\ health.err = ""
        /\ buildinfo # "" <=>
              /\ health.res.Status = HealthStatusError
              /\ health.res.Message = "Prometheus health check failed: " \o buildinfo
        /\ buildinfo = "" <=>
              /\ health.res.Status = HealthStatusOk
              /\ health.res.Message = "Data source is working"

\* The health check of a datasource without Prometheus URL failed with the
\* message of the build-info call.
Wit_C15 ==
    /\ pc = "health"
    /\ health.err = ""
    /\ health.res.Status = HealthStatusError
    /\ health.res.Message
         = "Prometheus health check failed: Get \"/api/v1/status/buildinfo\": unsupported protocol scheme \"\""

\* A health check succeeded after one that failed.
Wit_C15Ok ==
    /\ pc = "health"
    /\ healthChecks > 0
    /\ health.res.Status = HealthStatusOk

(***************************************************************************)
(* The join barrier and the fan-out of handleGraph.                         *)
(***************************************************************************)
AllTasksReturned == \A i \in DOMAIN tasks : tasks[i].pc = "returned"

\* The handler is past metricsWG.Wait(): it has read the error list or the
\* sample list, or built edges, nodes or a response.
Assembling ==
    \/ pc # "handleGraph"
    \/ response # NoResponse
    \/ edges # EmptyMap
    \/ nodes # EmptyMap

\* C16: deduplication, edge building and node aggregation start only after
\* every started fetch task has finished: whenever the handler is past the
\* join, every task has returned, the WaitGroup counter is 0 and no task
\* holds a lock.
Thm_C16 ==
    Assembling =>
        /\ AllTasksReturned
        /\ Len(tasks) = Len(requested)
        /\ metricsWG = 0
        /\ errorsMutex = 0 /\ prometheusMetricsMutex = 0

\* A graph of two metrics was assembled after both tasks had returned.
Wit_C16 ==
    /\ pc = "returned"
    /\ Len(requested) = 2
    /\ response.Frames # <<>>
    /\ AllTasksReturned

\* The handler is blocked at the join while one task has returned and the
\* other still holds the lock of the sample list.
Wit_C16Waiting ==
    /\ pc = "handleGraph"
    /\ idx > Len(requested)
    /\ \E i, j \in DOMAIN tasks : tasks[i].pc = "returned" /\ tasks[j].pc = "appendSource"
    /\ response = NoResponse

\* The handler has returned or aborted.
GraphDone == pc \in {"returned", "panic"}

\* Every fetch that was issued ran to its end: a task has either recorded
\* the error of its own failed fetch or holds the samples of both fetches.
FetchesCompleted ==
    \A i \in DOMAIN tasks :
        /\ tasks[i].pc = "returned"
        /\ IF <<requested[i], "destination">> \in failing
           THEN tasks[i].err = Err(requested[i], "destination")
           ELSE IF <<requested[i], "source">> \in failing
           THEN tasks[i].err = Err(requested[i], "source")
           ELSE /\ tasks[i].err = ""
                /\ tasks[i].destinationMetrics = Store(requested[i], "destination")
                /\ tasks[i].sourceMetrics = Store(requested[i], "source")

\* C17 as stated: in every graph build, for every requested metric kind both
\* the destination fetch and the source fetch are issued, whatever fetch
\* fails, and run to completion or to their own failure.
Cex_C17 ==
    GraphDone =>
        /\ \A i \in DOMAIN requested :
              /\ <<requested[i], "destination">> \in queries
              /\ <<requested[i], "source">> \in queries
        /\ FetchesCompleted

\* C17 (amended): for every requested metric kind the destination fetch is
\* issued; the source fetch of a kind is issued exactly when the destination
\* fetch of the same kind succeeded; a failed fetch never prevents a fetch
\* of another kind, and every issued fetch runs to completion or to its own
\* failure.
Thm_C17 ==
    GraphDone =>
        /\ \A i \in DOMAIN requested :
              /\ <<requested[i], "destination">> \in queries
              /\ <<requested[i], "source">> \in queries
                    <=> <<requested[i], "destination">> \notin failing
        /\ FetchesCompleted

\* The destination fetch of the first of two kinds failed: its source fetch
\* was not issued, both fetches of the other kind were.
Wit_C17 ==
    /\ pc = "returned"
    /\ Len(requested) = 2
    /\ failing = {<<requested[1], "destination">>}
    /\ queries = {<<requested[1], "destination">>, <<requested[2], "destination">>,
                  <<requested[2], "source">>}
    /\ tasks[2].sourceMetrics = Store(requested[2], "source")

\* The samples a task appends when both of its fetches succeed.
Block(i) == Store(requested[i], "destination") \o Store(requested[i], "source")

Succeeded(i) ==
    /\ <<requested[i], "destination">> \notin failing
    /\ <<requested[i], "source">> \notin failing

RECURSIVE BlocksInOrder(_, _)
BlocksInOrder(order, k) ==
    IF k > Len(order) THEN <<>> ELSE Block(order[k]) \o BlocksInOrder(order, k + 1)

\* C18: at the join the sample list is the concatenation, in some order of
\* the tasks, of the blocks (destination samples, then source samples) of
\* the tasks whose fetches succeeded, so with no failure it holds every
\* task's samples once and contiguously; the error list holds exactly one
\* entry per failed task.
Thm_C18 ==
    Joined =>
        /\ \E order \in Orders({i \in DOMAIN tasks : Succeeded(i)}) :
              prometheusMetrics = BlocksInOrder(order, 1)
        /\ Len(errors) = Cardinality({i \in DOMAIN tasks : ~Succeeded(i)})
        /\ \A i \in DOMAIN tasks :
              ~Succeeded(i) =>
                  Cardinality({k \in DOMAIN errors : errors[k] = tasks[i].err}) = 1

\* Both tasks succeeded and the block of the second task precedes the block
\* of the first in the sample list.
Wit_C18 ==
    /\ Joined
    /\ Len(requested) = 2
    /\ failing = {}
    /\ prometheusMetrics = Block(2) \o Block(1)
    /\ Len(errors) = 0

(***************************************************************************)
(* Histograms of the nodes.                                                 *)
(***************************************************************************)
RECURSIVE SumOfCode(_, _, _, _)
SumOfCode(es, ids, histogram, code) ==
    IF ids = {} THEN 0
    ELSE LET id == CHOOSE x \in ids : TRUE
         IN  CodeCount(es[id][histogram], code) + SumOfCode(es, ids \ {id}, histogram, code)

\* The value a histogram of a node holds for a code.
NodeCodeCount(n, histogram, code) == CodeCount(Deref(heap, nodes[n][histogram]), code)

\* C19: for every node, every response code and both protocols, the
\* server-side histogram value is the sum of the histogram value over the
\* edges whose destination is the node, and the client-side value the sum
\* over the edges whose source is the node, whatever the order of the visits.
Cex_C19 ==
    pc = "nodes" =>
        \A n \in DOMAIN nodes : \A code \in CodeUniverse :
            \A histogram \in {"GRPCResponseCodes", "HTTPResponseCodes"} :
                /\ NodeCodeCount(n, "Server" \o histogram, code)
                      = SumOfCode(edges, {id \in DOMAIN edges : edges[id].Destination = n},
                                  histogram, code)
                /\ NodeCodeCount(n, "Client" \o histogram, code)
                      = SumOfCode(edges, {id \in DOMAIN edges : edges[id].Source = n},
                                  histogram, code)

(***************************************************************************)
(* Durations of the workload->service edges.                                *)
(***************************************************************************)
\* The positions, among the first n samples, of the samples of a duration
\* kind with a positive value that are not excluded and map to the edge.
DurationPositions(n, id, kind) ==
    {i \in 1..n :
        /\ Label(metrics[i], "metric") = kind
        /\ metrics[i].Value > 0
        /\ ~ClaimExcluded(metrics[i])
        /\ \E k \in 1..Len(TmpEdges(metrics[i])) : TmpEdges(metrics[i])[k].ID = id}

\* The value of the last such sample, 0 when there is none.
LastDuration(n, id, kind) ==
    LET S == DurationPositions(n, id, kind)
    IN  IF S = {} THEN 0
        ELSE metrics[CHOOSE i \in S : \A j \in S : j <= i].Value

\* C20: once metricsToEdges has processed samples, the gRPC (resp. HTTP)
\* duration of every workload->service edge is the value of the last
\* processed sample of kind gRPC (resp. HTTP) duration with a positive value
\* that maps to the edge, and 0 when there is none; a duration sample whose
\* value is not positive therefore leaves the stored duration as it was.
Thm_C20 ==
    \A id \in DOMAIN edges :
        edges[id].SourceType = "Workload" /\ edges[id].DestinationType = "Service" =>
            /\ edges[id].GRPCRequestDuration
                  = LastDuration(idx - 1, id, MetricGRPCRequestDuration)
            /\ edges[id].HTTPRequestDuration
                  = LastDuration(idx - 1, id, MetricHTTPRequestDuration)

\* Two positive HTTP duration samples with different values were processed
\* for one workload->service edge: the edge holds the second value.
Wit_C20 ==
    /\ pc = "edges" /\ Len(metrics) = 2
    /\ \E id \in DOMAIN edges :
          /\ edges[id].DestinationType = "Service"
          /\ DurationPositions(2, id, MetricHTTPRequestDuration) = {1, 2}
          /\ metrics[1].Value # metrics[2].Value
          /\ edges[id].HTTPRequestDuration = metrics[2].Value

\* A positive HTTP duration sample was followed by one with value 0 for the
\* same edge: the edge still holds the positive value.
Wit_C20Unchanged ==
    /\ pc = "edges" /\ Len(metrics) = 2
    /\ \E id \in DOMAIN edges :
          /\ edges[id].DestinationType = "Service"
          /\ DurationPositions(2, id, MetricHTTPRequestDuration) = {1}
          /\ Label(metrics[2], "metric") = MetricHTTPRequestDuration
          /\ metrics[2].Value = 0
          /\ TmpEdges(metrics[2])[1].ID = id
          /\ edges[id].HTTPRequestDuration = metrics[1].Value

(***************************************************************************)
(* The request cases of the switch.                                         *)
(***************************************************************************)
\* The IDs of the edges the loop body applies a sample to.
AppliedTo(m) == {TmpEdges(m)[k].ID : k \in 1..Len(TmpEdges(m))}

\* The durations stored under id, 0 for a record not yet stored.
DurationsOf(es, id) ==
    IF id \in DOMAIN es THEN <<es[id].GRPCRequestDuration, es[id].HTTPRequestDuration>>
    ELSE <<0, 0>>

NoUpdate ==
    [grpcCodes |-> [c \in CodeUniverse |-> 0], httpCodes |-> [c \in CodeUniverse |-> 0],
     grpcSuccess |-> 0, grpcError |-> 0, httpSuccess |-> 0, httpError |-> 0,
     sentMessages |-> 0, receivedMessages |-> 0, sentBytes |-> 0, receivedBytes |-> 0]

ClaimGRPCErrors == {"2", "4", "12", "13", "14", "15"}

\* What a gRPC-requests sample is to add to an edge.
GRPCRequestsUpdate(m) ==
    LET status == Label(m, "grpc_response_status")
    IN  [NoUpdate EXCEPT
            !.grpcCodes = [@ EXCEPT ![status] = m.Value],
            !.grpcError = IF status \in ClaimGRPCErrors THEN m.Value ELSE 0,
            !.grpcSuccess = IF status \in ClaimGRPCErrors THEN 0 ELSE m.Value]

\* C21: a gRPC-requests sample adds its value to the bucket of its
\* grpc_response_status in the histogram of every edge it is applied to, to
\* the gRPC error accumulator iff the status is 2, 4, 12, 13, 14 or 15 and to
\* the gRPC success accumulator otherwise (an absent status included); no
\* HTTP, message, byte or duration field and no other edge changes.
Thm_C21 ==
    [][ProcessSample =>
         LET m == metrics[idx]
         IN  Label(m, "metric") = MetricGRPCRequests /\ ~ClaimExcluded(m) =>
                 /\ Touched(edges, edges') = AppliedTo(m)
                 /\ \A id \in AppliedTo(m) :
                       /\ CounterUpdate(edges, edges', id) = GRPCRequestsUpdate(m)
                       /\ DurationsOf(edges', id) = DurationsOf(edges, id)]_vars

\* A gRPC-requests sample with an error status and one with no status were
\* processed for the same edge.
Wit_C21 ==
    /\ pc = "edges" /\ Len(metrics) = 2
    /\ Label(metrics[1], "metric") = MetricGRPCRequests
    /\ Label(metrics[2], "metric") = MetricGRPCRequests
    /\ Label(metrics[1], "grpc_response_status") \in ClaimGRPCErrors
    /\ "grpc_response_status" \notin DOMAIN metrics[2].Labels
    /\ \E id \in AppliedTo(metrics[1]) \cap AppliedTo(metrics[2]) :
          /\ id \in DOMAIN edges
          /\ edges[id].GRPCRequestsError = metrics[1].Value
          /\ edges[id].GRPCRequestsSuccess = metrics[2].Value

\* What an HTTP-requests sample is to add to an edge.
HTTPRequestsUpdate(m) ==
    LET code == Label(m, "response_code")
        isError == Len(code) > 0 /\ SubSeq(code, 1, 1) = "5"
    IN  [NoUpdate EXCEPT
            !.httpCodes = [@ EXCEPT ![code] = m.Value],
            !.httpError = IF isError THEN m.Value ELSE 0,
            !.httpSuccess = IF isError THEN 0 ELSE m.Value]

\* C22: an HTTP-requests sample adds its value to the bucket of its
\* response_code in the histogram of every edge it is applied to, to the
\* HTTP error accumulator iff the first character of response_code is '5'
\* and to the HTTP success accumulator otherwise; no gRPC, message, byte or
\* duration field changes.
Cex_C22 ==
    [][ProcessSample =>
         LET m == metrics[idx]
         IN  Label(m, "metric") = MetricHTTPRequests /\ ~ClaimExcluded(m) =>
                 \A id \in AppliedTo(m) :
                     /\ CounterUpdate(edges, edges', id) = HTTPRequestsUpdate(m)
                     /\ DurationsOf(edges', id) = DurationsOf(edges, id)]_vars

\* The same statement for the samples that carry a response_code.
HTTPRequestsWithCode ==
    [][ProcessSample =>
         LET m == metrics[idx]
         IN  (/\ Label(m, "metric") = MetricHTTPRequests
              /\ "response_code" \in DOMAIN m.Labels
              /\ ~ClaimExcluded(m)) =>
                 \A id \in AppliedTo(m) :
                     /\ CounterUpdate(edges, edges', id) = HTTPRequestsUpdate(m)
                     /\ DurationsOf(edges', id) = DurationsOf(edges, id)]_vars

(***************************************************************************)
(* Entities, nodes and rows.                                                *)
(***************************************************************************)
\* The entities that are an endpoint of some edge.
Endpoints(es) == {es[id].Source : id \in DOMAIN es} \cup {es[id].Destination : id \in DOMAIN es}

RowIDs(frame) == {frame.Rows[k].id : k \in DOMAIN frame.Rows}

\* C23: the node map of edgesToNodes has exactly one entry per entity that is
\* the source or the destination of some edge, stored under the entity's
\* identity; the node frame of handleGraph has exactly one row per such
\* entity and the edge frame exactly one row per edge.
Thm_C23 ==
    (pc = "returned" /\ Len(errors) = 0) =>
        /\ DOMAIN nodes = Endpoints(edges)
        /\ \A n \in DOMAIN nodes : nodes[n].ID = n
        /\ Len(response.Frames) = 2
        /\ Len(response.Frames[2].Rows) = Cardinality(Endpoints(edges))
        /\ RowIDs(response.Frames[2]) = Endpoints(edges)
        /\ Len(response.Frames[1].Rows) = Cardinality(DOMAIN edges)
        /\ RowIDs(response.Frames[1]) = DOMAIN edges

\* A graph of three edges was returned in which one entity is the destination
\* of one edge and the source of another: four or five nodes, one row each.
Wit_C23 ==
    /\ pc = "returned" /\ Len(errors) = 0
    /\ Cardinality(DOMAIN edges) = 3
    /\ \E a, b \in DOMAIN edges : a # b /\ edges[a].Destination = edges[b].Source
    /\ Cardinality(DOMAIN nodes) \in {4, 5}
    /\ Len(response.Frames[2].Rows) = Cardinality(DOMAIN nodes)

\* The key set of the node map under the specification of edgesToNodes alone,
\* whose edge maps include waypoint edges and self loops.
NodeKeysAreEndpoints ==
    pc = "nodes" => DOMAIN nodes = Endpoints(edges) /\ \A n \in DOMAIN nodes : nodes[n].ID = n

(***************************************************************************)
(* Accumulation.                                                            *)
(***************************************************************************)
\* No accumulator, bucket, message count or byte count was decreased.
NothingDecreased(update) ==
    /\ \A c \in CodeUniverse : update.grpcCodes[c] >= 0 /\ update.httpCodes[c] >= 0
    /\ update.grpcSuccess >= 0 /\ update.grpcError >= 0
    /\ update.httpSuccess >= 0 /\ update.httpError >= 0
    /\ update.sentMessages >= 0 /\ update.receivedMessages >= 0
    /\ update.sentBytes >= 0 /\ update.receivedBytes >= 0

\* C24: while metricsToEdges processes samples with non-negative values, no
\* request accumulator, histogram bucket, message count or byte count of an
\* edge record decreases from one processed sample to the next, and a record
\* once created stays in the map.
Thm_C24 ==
    [][(\A i \in DOMAIN metrics : metrics[i].Value >= 0) =>
          \A id \in DOMAIN edges :
              /\ id \in DOMAIN edges'
              /\ NothingDecreased(CounterUpdate(edges, edges', id))]_vars

\* Two request samples were accumulated into one record, which holds their sum.
Wit_C24 ==
    /\ pc = "edges" /\ Len(metrics) = 2
    /\ Label(metrics[1], "metric") = MetricHTTPRequests
    /\ Label(metrics[2], "metric") = MetricHTTPRequests
    /\ metrics[1].Value > 0 /\ metrics[2].Value > 0
    /\ \E id \in AppliedTo(metrics[1]) \cap AppliedTo(metrics[2]) :
          /\ id \in DOMAIN edges
          /\ edges[id].HTTPRequestsSuccess + edges[id].HTTPRequestsError
                = metrics[1].Value + metrics[2].Value

(***************************************************************************)
(* handleFilters and handelLabelValues: one goroutine per query, the        *)
(* values joined, sorted and compacted into one frame.                      *)
(***************************************************************************)
MaxQueries == 2        \* longest list of queries given to handelLabelValues

\* The bytes of the characters of the values: Go orders strings bytewise.
Byte ==
    ("/" :> 47) @@ ("1" :> 49) @@ ("2" :> 50) @@ ("W" :> 87) @@ ("a" :> 97) @@ ("b" :> 98)
    @@ ("d" :> 100) @@ ("e" :> 101) @@ ("i" :> 105) @@ ("n" :> 110) @@ ("p" :> 112)
    @@ ("s" :> 115) @@ ("w" :> 119)

\* a < b on Go strings.
RECURSIVE StringLess(_, _)
StringLess(a, b) ==
    IF Len(b) = 0 THEN FALSE
    ELSE IF Len(a) = 0 THEN TRUE
    ELSE LET x == Byte[SubSeq(a, 1, 1)]
             y == Byte[SubSeq(b, 1, 1)]
         IN  IF x # y THEN x < y
             ELSE StringLess(SubSeq(a, 2, Len(a)), SubSeq(b, 2, Len(b)))

RECURSIVE Insert(_, _)
Insert(sorted, v) ==
    IF Len(sorted) = 0 THEN <<v>>
    ELSE IF StringLess(sorted[1], v) THEN <<sorted[1]>> \o Insert(Tail(sorted), v)
    ELSE <<v>> \o sorted

\* slices.Sort on a []string.
RECURSIVE Sort(_)
Sort(s) == IF Len(s) = 0 THEN <<>> ELSE Insert(Sort(Tail(s)), s[1])

\* Mutation: runs of equal values are kept.
CompactNothing(s) == s

\* slices.Compact: every run of equal consecutive elements becomes one element.
RECURSIVE Compact(_)
Compact(s) ==
    IF Len(s) <= 1 THEN s
    ELSE IF s[1] = s[2] THEN Compact(Tail(s))
    ELSE <<s[1]>> \o Compact(Tail(s))

\* for _, v := range values { allValues = append(allValues, v...) }
RECURSIVE Flatten(_)
Flatten(lists) == IF Len(lists) = 0 THEN <<>> ELSE lists[1] \o Flatten(Tail(lists))

\* The loop of a goroutine of handleFilters over the samples of its query.
RECURSIVE FilterValues(_, _, _)
FilterValues(ms, namespaceLabel, workloadLabel) ==
    IF Len(ms) = 0 THEN <<>>
    ELSE LET labels == ms[1].Labels
             rest == FilterValues(Tail(ms), namespaceLabel, workloadLabel)
         IN  IF namespaceLabel \in DOMAIN labels /\ workloadLabel \in DOMAIN labels
             THEN <<FilterKey(labels[namespaceLabel], labels[workloadLabel])>> \o rest
             ELSE rest

\* A series of a "sum(...) by (namespace, workload)" query.
\* GetMetrics sets labels["metric"] = metric before it copies the labels of the
\* stream; handleFilters passes the empty metric name.
Series(labels) == [Value |-> 1, Labels |-> labels @@ ("metric" :> "")]

\* namespaceLabel, workloadLabel and the number of queries per filter type.
FilterHandlers ==
    {[name |-> "handleFilters", namespaceLabel |-> "source_workload_namespace",
      workloadLabel |-> "source_workload", queries |-> 3],
     [name |-> "handleFilters", namespaceLabel |-> "destination_workload_namespace",
      workloadLabel |-> "destination_workload", queries |-> 3],
     [name |-> "handleFilters", namespaceLabel |-> "", workloadLabel |-> "", queries |-> 0]}

LabelValuesHandlers ==
    {[name |-> "handelLabelValues", namespaceLabel |-> "", workloadLabel |-> "", queries |-> n] :
        n \in 0..MaxQueries}

\* What the Prometheus client can return to a goroutine of handleFilters.
ServedMetrics(h) ==
    {[err |-> "query failed", data |-> <<>>],
     [err |-> "", data |-> <<>>],
     [err |-> "", data |-> <<Series((h.namespaceLabel :> "ns1") @@ (h.workloadLabel :> "web")),
                             Series((h.namespaceLabel :> "ns1") @@ (h.workloadLabel :> "api"))>>],
     [err |-> "", data |-> <<Series((h.namespaceLabel :> "ns2") @@ (h.workloadLabel :> "db")),
                             Series((h.namespaceLabel :> "ns1")),
                             Series((h.workloadLabel :> "web")),
                             Series((h.namespaceLabel :> "ns1") @@ (h.workloadLabel :> "api"))>>]}

\* What it can return to a goroutine of handelLabelValues.
ServedLabelValues ==
    {[err |-> "label values failed", data |-> <<>>],
     [err |-> "", data |-> <<"web", "api", "Web">>],
     [err |-> "", data |-> <<"db", "api">>]}

NoValues == [pc |-> "notStarted", vs |-> <<>>, err |-> ""]

InitValues ==
    /\ pc = "handler"
    /\ handler \in FilterHandlers \cup LabelValuesHandlers
    /\ served \in [1..handler.queries ->
                     IF handler.name = "handleFilters" THEN ServedMetrics(handler)
                     ELSE ServedLabelValues]
    /\ tasks = [i \in 1..handler.queries |-> NoValues]
    /\ errors = <<>> /\ errorsMutex = 0
    /\ values = <<>> /\ valuesMutex = 0
    /\ queriesWG = handler.queries
    /\ response = NoResponse
    /\ idx = 1
    /\ requested = <<>> /\ failing = {} /\ queries = {}
    /\ prometheusMetrics = <<>> /\ prometheusMetricsMutex = 0 /\ metricsWG = 0
    /\ sourceFilters = {} /\ destinationFilters = {}
    /\ edges = EmptyMap
    /\ metrics = <<>> /\ result = <<>> /\ again = <<>>
    /\ IdleNodes
    /\ IdleProjection
    /\ IdleHealth

valuesData == <<metrics, sourceFilters, destinationFilters, result, again, edges, heap,
                visited, nodes, projectionVars, healthVars, requested, failing,
                prometheusMetrics, prometheusMetricsMutex, metricsWG, queries, handler, served>>

\* go func(q string) {...}(q)
GoQuery ==
    /\ pc = "handler"
    /\ idx <= Len(served)
    /\ tasks' = [tasks EXCEPT ![idx].pc = "fetch"]
    /\ idx' = idx + 1
    /\ UNCHANGED <<pc, valuesData, errors, errorsMutex, values, valuesMutex, queriesWG, response>>

\* GetMetrics / GetLabelValues and, in handleFilters, the loop that builds vs.
FetchValues(i) ==
    /\ tasks[i].pc = "fetch"
    /\ tasks' =
         IF served[i].err # ""
         THEN [tasks EXCEPT ![i].err = served[i].err, ![i].pc = "lockErrors"]
         ELSE [tasks EXCEPT
                  ![i].vs = IF handler.name = "handleFilters"
                            THEN FilterValues(served[i].data, handler.namespaceLabel,
                                              handler.workloadLabel)
                            ELSE served[i].data,
                  ![i].pc = "lockValues"]
    /\ UNCHANGED <<pc, idx, valuesData, errors, errorsMutex, values, valuesMutex, queriesWG, response>>

LockQueryErrors(i) ==
    /\ tasks[i].pc = "lockErrors"
    /\ errorsMutex = 0
    /\ errorsMutex' = i
    /\ tasks' = [tasks EXCEPT ![i].pc = "appendError"]
    /\ UNCHANGED <<pc, idx, valuesData, errors, values, valuesMutex, queriesWG, response>>

AppendQueryError(i) ==
    /\ tasks[i].pc = "appendError"
    /\ errors' = Append(errors, tasks[i].err)
    /\ tasks' = [tasks EXCEPT ![i].pc = "unlockErrors"]
    /\ UNCHANGED <<pc, idx, valuesData, errorsMutex, values, valuesMutex, queriesWG, response>>

UnlockQueryErrors(i) ==
    /\ tasks[i].pc = "unlockErrors"
    /\ errorsMutex' = 0
    /\ tasks' = [tasks EXCEPT ![i].pc = "done"]
    /\ UNCHANGED <<pc, idx, valuesData, errors, values, valuesMutex, queriesWG, response>>

LockValues(i) ==
    /\ tasks[i].pc = "lockValues"
    /\ valuesMutex = 0
    /\ valuesMutex' = i
    /\ tasks' = [tasks EXCEPT ![i].pc = "appendValues"]
    /\ UNCHANGED <<pc, idx, valuesData, errors, errorsMutex, values, queriesWG, response>>

\* values = append(values, vs...) in handleFilters, append(values, labelValues)
\* in handelLabelValues.
AppendValues(i) ==
    /\ tasks[i].pc = "appendValues"
    /\ values' = IF handler.name = "handleFilters" THEN values \o tasks[i].vs
                 ELSE Append(values, tasks[i].vs)
    /\ tasks' = [tasks EXCEPT ![i].pc = "unlockValues"]
    /\ UNCHANGED <<pc, idx, valuesData, errors, errorsMutex, valuesMutex, queriesWG, response>>

UnlockValues(i) ==
    /\ tasks[i].pc = "unlockValues"
    /\ valuesMutex' = 0
    /\ tasks' = [tasks EXCEPT ![i].pc = "done"]
    /\ UNCHANGED <<pc, idx, valuesData, errors, errorsMutex, values, queriesWG, response>>

\* defer queriesWG.Done()
QueryDone(i) ==
    /\ tasks[i].pc = "done"
    /\ queriesWG' = queriesWG - 1
    /\ tasks' = [tasks EXCEPT ![i].pc = "returned"]
    /\ UNCHANGED <<pc, idx, valuesData, errors, errorsMutex, values, valuesMutex, response>>

\* queriesWG.Wait() returns
QueriesJoined == pc = "handler" /\ idx > Len(served) /\ queriesWG = 0

ReturnQueryError ==
    /\ QueriesJoined
    /\ Len(errors) > 0
    /\ response' = [Error |-> ReturnedError(errors), Frames |-> <<>>]
    /\ pc' = "returned"
    /\ UNCHANGED <<idx, valuesData, tasks, errors, errorsMutex, values, valuesMutex, queriesWG>>

\* slices.Sort(values); values = slices.Compact(values) in handleFilters, which
\* sorts and compacts the variable itself; handelLabelValues flattens values
\* into allValues and sorts and compacts that copy.
ReturnValues ==
    /\ QueriesJoined
    /\ Len(errors) = 0
    /\ LET allValues == IF handler.name = "handleFilters" THEN values ELSE Flatten(values)
           compacted == Compact(Sort(allValues))
       IN  /\ values' = IF handler.name = "handleFilters" THEN compacted ELSE values
           /\ response' = [Error |-> "",
                            Frames |-> <<[Name |-> "Values", Rows |-> compacted]>>]
    /\ pc' = "returned"
    /\ UNCHANGED <<idx, valuesData, tasks, errors, errorsMutex, valuesMutex, queriesWG>>

NextValues ==
    \/ GoQuery
    \/ \E i \in 1..Len(served) :
          \/ FetchValues(i)
          \/ LockQueryErrors(i) \/ AppendQueryError(i) \/ UnlockQueryErrors(i)
          \/ LockValues(i) \/ AppendValues(i) \/ UnlockValues(i)
          \/ QueryDone(i)
    \/ ReturnQueryError
    \/ ReturnValues

SpecValues == InitValues /\ [][NextValues]_vars

\* The values the fetches of a call delivered: the label values, or
\* "<namespace>/<workload>" of every sample that carries both labels.
FetchedValues ==
    IF handler.name = "handleFilters"
    THEN UNION {{served[i].data[k].Labels[handler.namespaceLabel] \o "/"
                    \o served[i].data[k].Labels[handler.workloadLabel] :
                 k \in {j \in DOMAIN served[i].data :
                          {handler.namespaceLabel, handler.workloadLabel}
                              \subseteq DOMAIN served[i].data[j].Labels}} :
                i \in DOMAIN served}
    ELSE UNION {Range(served[i].data) : i \in DOMAIN served}

SomeFetchFailed == \E i \in DOMAIN served : served[i].err # ""

\* C25: for every interleaving of their goroutines, handelLabelValues and
\* handleFilters return an error response without a frame when some fetch
\* failed, and otherwise one frame whose values are the union of the fetched
\* values in strictly ascending order (sorted, no duplicates); handleFilters
\* takes "<namespace>/<workload>" only from samples that carry both labels.
Thm_C25 ==
    pc = "returned" =>
        IF SomeFetchFailed
        THEN /\ response.Error # ""
             /\ response.Error \in {served[i].err : i \in DOMAIN served}
             /\ response.Frames = <<>>
        ELSE /\ response.Error = ""
             /\ Len(response.Frames) = 1
             /\ LET rows == response.Frames[1].Rows
                IN  /\ Range(rows) = FetchedValues
                    /\ \A k \in 1..(Len(rows) - 1) : StringLess(rows[k], rows[k + 1])

\* handleFilters returned three values although its goroutines fetched
\* seven samples, two of them without one of the labels, and kept five of
\* them; the slice the goroutines appended to is left sorted and compacted.
Wit_C25 ==
    /\ pc = "returned" /\ handler.name = "handleFilters" /\ ~SomeFetchFailed
    /\ Len(Flatten([i \in DOMAIN tasks |-> tasks[i].vs])) >= 5
    /\ \E i \in DOMAIN served : \E k \in DOMAIN served[i].data :
          handler.workloadLabel \notin DOMAIN served[i].data[k].Labels
    /\ tasks[3].vs = <<"ns2/db", "ns1/api">> /\ tasks[1].vs = <<"ns1/web", "ns1/api">>
    /\ values = <<"ns1/api", "ns1/web", "ns2/db">>
    /\ response.Frames[1].Rows = values

\* handelLabelValues returned the sorted union of two overlapping lists that
\* were appended in the reverse order of the queries.
Wit_C25LabelValues ==
    /\ pc = "returned" /\ handler.name = "handelLabelValues" /\ ~SomeFetchFailed
    /\ Len(served) = 2
    /\ values = <<served[2].data, served[1].data>>
    /\ response.Frames[1].Rows = <<"Web", "api", "db", "web">>

\* One fetch failed and another delivered values: the response has no frame.
Wit_C25Error ==
    /\ pc = "returned" /\ SomeFetchFailed
    /\ Len(values) > 0
    /\ response.Frames = <<>> /\ response.Error # ""

(***************************************************************************)
(* Accumulators and histograms of an edge.                                  *)
(***************************************************************************)
\* The sum of the values of a histogram.
RECURSIVE SumOfCodes(_)
SumOfCodes(codes) ==
    IF DOMAIN codes = {} THEN 0
    ELSE LET code == CHOOSE c \in DOMAIN codes : TRUE
         IN  codes[code] + SumOfCodes([c \in DOMAIN codes \ {code} |-> codes[c]])

\* C26: after every sample metricsToEdges has processed, gRPC success plus
\* gRPC error of every edge record is the sum of the values of its gRPC
\* response-code histogram, and HTTP success plus HTTP error the sum of the
\* values of its HTTP response-code histogram.
Thm_C26 ==
    pc \in {"metricsToEdges", "edges"} =>
        \A id \in DOMAIN edges :
            /\ edges[id].GRPCRequestsSuccess + edges[id].GRPCRequestsError
                  = SumOfCodes(edges[id].GRPCResponseCodes)
            /\ edges[id].HTTPRequestsSuccess + edges[id].HTTPRequestsError
                  = SumOfCodes(edges[id].HTTPResponseCodes)

\* Two request samples with the same status were processed for one edge,
\* whose bucket holds the sum of their values.
Wit_C26 ==
    /\ pc = "edges" /\ Len(metrics) = 2
    /\ Label(metrics[1], "metric") = MetricHTTPRequests
    /\ Label(metrics[2], "metric") = MetricHTTPRequests
    /\ Label(metrics[1], "response_code") = "200"
    /\ Label(metrics[2], "response_code") = "200"
    /\ \E id \in AppliedTo(metrics[1]) \cap AppliedTo(metrics[2]) :
          /\ id \in DOMAIN edges
          /\ edges[id].HTTPResponseCodes["200"] = metrics[1].Value + metrics[2].Value
          /\ edges[id].HTTPRequestsSuccess = metrics[1].Value + metrics[2].Value

\* The state a panic leaves behind: the bucket of the absent response_code
\* was incremented, no accumulator was.
PanicLeavesBucket ==
    pc = "panic" =>
        \E id \in DOMAIN edges :
            edges[id].HTTPRequestsSuccess + edges[id].HTTPRequestsError
                < SumOfCodes(edges[id].HTTPResponseCodes)

(***************************************************************************)
(* The two sides of a Service node.                                         *)
(***************************************************************************)
\* C27: for every Service node of the nodes built from the edges of
\* metricsToEdges, the client-side total equals the server-side total for
\* gRPC success, gRPC error, HTTP success, HTTP error, sent and received
\* messages and sent and received TCP bytes.
Thm_C27 ==
    pc = "nodes" =>
        \A n \in DOMAIN nodes :
            nodes[n].Type = "Service" =>
                \A c \in EdgeCounters : nodes[n]["Client" \o c] = nodes[n]["Server" \o c]

\* A Service node with one incoming and two outgoing edges was aggregated:
\* its server side holds what the two outgoing edges carry together.
Wit_C27 ==
    /\ pc = "nodes"
    /\ \E n \in DOMAIN nodes :
          /\ nodes[n].Type = "Service"
          /\ Cardinality({id \in DOMAIN edges : edges[id].Source = n}) = 2
          /\ Cardinality({id \in DOMAIN edges : edges[id].Destination = n}) = 1
          /\ nodes[n].ServerHTTPRequestsSuccess = 4
          /\ nodes[n].ClientHTTPRequestsSuccess = 4

(***************************************************************************)
(* The edge map of handleGraph across interleavings.                        *)
(***************************************************************************)
\* The samples of the requested metrics in the order of the request.
RECURSIVE BlocksInRequestOrder(_)
BlocksInRequestOrder(i) ==
    IF i > Len(requested) THEN <<>> ELSE Block(i) \o BlocksInRequestOrder(i + 1)

\* The edge map built when the goroutines append in the order of the request.
EdgesInRequestOrder ==
    metricsToEdges(deduplicateMetrics(BlocksInRequestOrder(1)), sourceFilters,
                   destinationFilters).edges

AllFetchesSucceeded == pc = "returned" /\ Len(errors) = 0 /\ failing = {}

\* C28: when the requested metric kinds are pairwise distinct and every
\* fetch succeeds with fixed results, handleGraph builds the same edge map
\* (edge set, counters, durations) for every interleaving of its goroutines.
Cex_C28 == AllFetchesSucceeded => edges = EdgesInRequestOrder

\* What does hold: the same IDs, histograms, counters and durations in every
\* interleaving, and the same record for every edge that is not a
\* workload->workload edge.
EdgesUpToEndpoints ==
    AllFetchesSucceeded =>
        /\ DOMAIN edges = DOMAIN EdgesInRequestOrder
        /\ \A id \in DOMAIN edges :
              LET built == edges[id]
                  expected == EdgesInRequestOrder[id]
              IN  /\ CounterUpdate(EmptyMap, edges, id)
                        = CounterUpdate(EmptyMap, EdgesInRequestOrder, id)
                  /\ built.GRPCRequestDuration = expected.GRPCRequestDuration
                  /\ built.HTTPRequestDuration = expected.HTTPRequestDuration
                  /\ (built.SourceType = "Service" \/ built.DestinationType = "Service")
                        => built = expected

(***************************************************************************)
(* The edges after edgesToNodes.                                            *)
(***************************************************************************)
\* C29: edgesToNodes leaves the edges it is given as they were: after the
\* call the gRPC and HTTP response-code histograms of every edge hold what
\* they held before it (the counters are copied by value and cannot change),
\* for every set of edges and every visiting order.
Cex_C29 ==
    pc = "nodes" =>
        \A id \in DOMAIN edges :
            /\ Deref(heap, EdgeMap(id, "GRPC")) = edges[id].GRPCResponseCodes
            /\ Deref(heap, EdgeMap(id, "HTTP")) = edges[id].HTTPResponseCodes

\* The histograms of an edge are left alone when no two edges share a source
\* and no two edges share a destination.
EdgesKeptWithoutSharedEndpoints ==
    (/\ pc = "nodes"
     /\ \A a, b \in DOMAIN edges :
           a # b => /\ edges[a].Source # edges[b].Source
                    /\ edges[a].Destination # edges[b].Destination) =>
        \A id \in DOMAIN edges :
            /\ Deref(heap, EdgeMap(id, "GRPC")) = edges[id].GRPCResponseCodes
            /\ Deref(heap, EdgeMap(id, "HTTP")) = edges[id].HTTPResponseCodes

(***************************************************************************)
(* The Service field of a node.                                             *)
(***************************************************************************)
\* C30: the node records edgesToNodes returns do not depend on the order of
\* the visits; in particular the Service field of every Service node is the
\* DestinationService of the edges that end at the node, whether the node is
\* first met as the destination of a workload->service edge or as the source
\* of a service->workload edge.
Cex_C30 ==
    pc = "nodes" =>
        \A n \in DOMAIN nodes :
            nodes[n].Type = "Service" =>
                \A id \in DOMAIN edges :
                    edges[id].Destination = n => nodes[n].Service = edges[id].DestinationService

\* What the code guarantees: the Service field is the DestinationService of
\* the incoming edges or empty.
ServiceFieldOrEmpty ==
    pc = "nodes" =>
        \A n \in DOMAIN nodes :
            nodes[n].Type = "Service" =>
                \A id \in DOMAIN edges :
                    edges[id].Destination = n =>
                        nodes[n].Service \in {"", edges[id].DestinationService}

=============================================================================
